---- MODULE Spec2Model ----
(***************************************************************************)
(* Model of the isclose crate: the scalar tolerance comparison of f32 and  *)
(* f64, the trait's derived entry points, the euclid composite             *)
(* implementations, the reference implementations and the assertion        *)
(* macros.                                                                 *)
(*                                                                         *)
(* Floating point numbers are modelled as a binary IEEE 754 format of      *)
(* reduced width: Precision significand bits, gradual underflow, round to  *)
(* nearest with ties to even, overflow to infinity, one NaN.  A finite     *)
(* float is held as the integer number of quanta (the smallest subnormal)  *)
(* it is worth, so that sums and differences are exact integers before     *)
(* rounding.  The value 1.0 is One quanta.  The sign of zero is not        *)
(* modelled: abs, max, the arithmetic and <= treat -0.0 as 0.0.            *)
(***************************************************************************)
EXTENDS Integers, FiniteSets, Sequences, TLC

\* Significand bits of the reduced float format (f32 has 24, f64 has 53).
Precision == 2
\* Number of binades above the lowest one (the exponent range).
ExpRange == 1
\* Deepest nesting of references an operand is passed through.
MaxRefDepth == 2

RECURSIVE Pow2(_)
Pow2(n) == IF n = 0 THEN 1 ELSE 2 * Pow2(n - 1)

\* 1.0 in quanta
One == Pow2(Precision)
MaxFinite == (Pow2(Precision) - 1) * Pow2(ExpRange)
\* f32::INFINITY, f32::NEG_INFINITY, f32::NAN (encodings outside the finite range)
PosInf == Pow2(Precision + ExpRange)
NegInf == 0 - PosInf
NaN == PosInf + 1

\* n quanta (n >= 0) is a magnitude of the format
Representable(n) ==
    \/ n < Pow2(Precision)
    \/ \E k \in 1..ExpRange :
          /\ n % Pow2(k) = 0
          /\ (n \div Pow2(k)) \in Pow2(Precision - 1)..(Pow2(Precision) - 1)

FinMags == {n \in 0..MaxFinite : Representable(n)}
Finite == {n \in (0 - MaxFinite)..MaxFinite : Representable(IF n < 0 THEN 0 - n ELSE n)}
Floats == Finite \cup {PosInf, NegInf, NaN}

\* unit in the last place of the binade of magnitude n
Ulp(n) ==
    IF n < Pow2(Precision) THEN 1
    ELSE Pow2(CHOOSE k \in 1..(ExpRange + 1) :
                  Pow2(Precision - 1 + k) <= n /\ n < Pow2(Precision + k))
EvenMant(n) == (n \div Ulp(n)) % 2 = 0

\* The magnitude num/den (num >= 0, den > 0) rounded to nearest, ties to even;
\* PosInf when it rounds beyond MaxFinite.
RoundMag(num, den) ==
    IF num >= PosInf * den THEN PosInf
    ELSE LET cand == FinMags \cup {PosInf}
             lo == CHOOSE m \in FinMags :
                      m * den <= num /\ \A x \in FinMags : x * den <= num => x <= m
             hi == CHOOSE m \in cand :
                      m * den >= num /\ \A x \in cand : x * den >= num => x >= m
         IN IF lo = hi THEN lo
            ELSE IF 2 * num < (lo + hi) * den THEN lo
            ELSE IF 2 * num > (lo + hi) * den THEN hi
            ELSE IF EvenMant(lo) THEN lo ELSE hi

Round(num, den) ==
    IF num < 0 THEN 0 - RoundMag(0 - num, den) ELSE RoundMag(num, den)

\* The rounded sum of two finite floats whose exact sum is n quanta, and the
\* rounded product of two finite floats, tabulated.
SumTab == [n \in (0 - 2 * MaxFinite)..(2 * MaxFinite) |-> Round(n, 1)]
MulTab == [x \in Finite |-> [y \in Finite |-> Round(x * y, One)]]

IsNaN(x) == x = NaN
IsInf(x) == x = PosInf \/ x = NegInf
IsFinite(x) == ~IsNaN(x) /\ ~IsInf(x)
Sign(x) == IF x < 0 THEN 0 - 1 ELSE IF x > 0 THEN 1 ELSE 0

\* Abs::abs
FAbs(x) == IF IsNaN(x) THEN NaN ELSE IF x < 0 THEN 0 - x ELSE x
FNeg(x) == IF IsNaN(x) THEN NaN ELSE 0 - x
\* f32::max: a NaN argument is ignored when the other is a number
FMax(x, y) ==
    IF IsNaN(x) THEN y ELSE IF IsNaN(y) THEN x ELSE IF x >= y THEN x ELSE y
FAdd(x, y) ==
    IF IsNaN(x) \/ IsNaN(y) THEN NaN
    ELSE IF IsInf(x) THEN (IF IsInf(y) /\ y # x THEN NaN ELSE x)
    ELSE IF IsInf(y) THEN y
    ELSE SumTab[x + y]
FSub(x, y) == FAdd(x, FNeg(y))
FMul(x, y) ==
    IF IsNaN(x) \/ IsNaN(y) THEN NaN
    ELSE IF IsInf(x) \/ IsInf(y)
         THEN (IF x = 0 \/ y = 0 THEN NaN ELSE Sign(x) * Sign(y) * PosInf)
    ELSE MulTab[x][y]
\* <= on floats: false when either side is NaN
FLe(x, y) == ~IsNaN(x) /\ ~IsNaN(y) /\ x <= y
\* == on floats
FEq(x, y) == ~IsNaN(x) /\ ~IsNaN(y) /\ x = y

(***************************************************************************)
(* The formats at full width                                               *)
(*                                                                         *)
(* What depends on the decimal value of a constant is computed in the      *)
(* formats as they are: binary16, bfloat16, binary32 and binary64, round   *)
(* to nearest with ties to even.  A natural number is the sequence of its  *)
(* digits to the base 2^15, lowest first, without leading zeros; a finite float   *)
(* is sign, odd significand and exponent of two.                           *)
(***************************************************************************)
\* the base of the digits
Limb == Pow2(15)

RECURSIVE BigOfInt(_)
BigOfInt(n) == IF n = 0 THEN <<>> ELSE <<n % Limb>> \o BigOfInt(n \div Limb)

RECURSIVE BigNorm(_)
BigNorm(a) ==
    IF a = <<>> THEN <<>>
    ELSE IF a[Len(a)] = 0 THEN BigNorm(SubSeq(a, 1, Len(a) - 1))
    ELSE a

BigDigit(a, i) == IF i \in 1..Len(a) THEN a[i] ELSE 0

RECURSIVE BigAddC(_, _, _, _)
BigAddC(a, b, i, c) ==
    IF i > Len(a) /\ i > Len(b) THEN (IF c = 1 THEN <<1>> ELSE <<>>)
    ELSE LET d == BigDigit(a, i) + BigDigit(b, i) + c
         IN <<d % Limb>> \o BigAddC(a, b, i + 1, d \div Limb)

BigAdd(a, b) == BigAddC(a, b, 1, 0)

\* a - b for a >= b
RECURSIVE BigSubB(_, _, _, _)
BigSubB(a, b, i, c) ==
    IF i > Len(a) THEN <<>>
    ELSE LET d == BigDigit(a, i) - BigDigit(b, i) - c
         IN <<d % Limb>> \o BigSubB(a, b, i + 1, IF d < 0 THEN 1 ELSE 0)

BigSub(a, b) == BigNorm(BigSubB(a, b, 1, 0))

\* -1, 0, 1 as a < b, a = b, a > b
RECURSIVE BigCmpAt(_, _, _)
BigCmpAt(a, b, i) ==
    IF i = 0 THEN 0
    ELSE IF a[i] < b[i] THEN 0 - 1
    ELSE IF a[i] > b[i] THEN 1
    ELSE BigCmpAt(a, b, i - 1)

BigCmp(a, b) ==
    IF Len(a) < Len(b) THEN 0 - 1
    ELSE IF Len(a) > Len(b) THEN 1
    ELSE BigCmpAt(a, b, Len(a))

\* a * k for a digit k
RECURSIVE BigMulDigit(_, _, _, _)
BigMulDigit(a, k, i, c) ==
    IF i > Len(a) THEN BigOfInt(c)
    ELSE LET d == a[i] * k + c
         IN <<d % Limb>> \o BigMulDigit(a, k, i + 1, d \div Limb)

\* quotient and remainder of a by a digit k > 0, from the highest digit down
RECURSIVE BigDivDigit(_, _, _, _)
BigDivDigit(a, k, i, r) ==
    IF i = 0 THEN <<<<>>, r>>
    ELSE LET d == r * Limb + a[i]
             rest == BigDivDigit(a, k, i - 1, d % k)
         IN <<Append(rest[1], d \div k), rest[2]>>

BigDivMod(a, k) ==
    LET qr == BigDivDigit(a, k, Len(a), 0) IN <<BigNorm(qr[1]), qr[2]>>

\* a * 2^n and the whole part of a / 2^n
BigShl(a, n) ==
    IF a = <<>> THEN <<>>
    ELSE [i \in 1..(n \div 15) |-> 0] \o BigNorm(BigMulDigit(a, Pow2(n % 15), 1, 0))
BigShr(a, n) ==
    IF n \div 15 >= Len(a) THEN <<>>
    ELSE BigDivMod(SubSeq(a, n \div 15 + 1, Len(a)), Pow2(n % 15))[1]

\* the number of binary digits of a
RECURSIVE IntLen(_)
IntLen(n) == IF n = 0 THEN 0 ELSE 1 + IntLen(n \div 2)
BigLen(a) == IF a = <<>> THEN 0 ELSE 15 * (Len(a) - 1) + IntLen(a[Len(a)])

\* binary digit i of a, the lowest being digit 1
BigBit(a, i) ==
    IF i < 1 THEN 0 ELSE (BigDigit(a, (i - 1) \div 15 + 1) \div Pow2((i - 1) % 15)) % 2
\* some of the k lowest binary digits is not zero
BigLow(a, k) ==
    \/ \E i \in 1..(k \div 15) : BigDigit(a, i) # 0
    \/ BigDigit(a, k \div 15 + 1) % Pow2(k % 15) # 0

RECURSIVE BigMulAt(_, _, _)
BigMulAt(a, b, i) ==
    IF i > Len(b) THEN <<>>
    ELSE BigAdd([j \in 1..(i - 1) |-> 0] \o BigMulDigit(a, b[i], 1, 0),
                BigMulAt(a, b, i + 1))

BigMul(a, b) == IF a = <<>> \/ b = <<>> THEN <<>> ELSE BigNorm(BigMulAt(a, b, 1))

RECURSIVE BigPow10(_)
BigPow10(n) == IF n = 0 THEN <<1>> ELSE BigMulDigit(BigPow10(n - 1), 10, 1, 0)

\* quotient of a by 10^n, and whether a remainder was dropped; qr is the
\* quotient and the remainder of one division by 10
RECURSIVE BigDivPow10(_, _, _)
BigDivPow10Step(qr, n, dropped) ==
    IF qr[2] = 0 THEN BigDivPow10(qr[1], n - 1, dropped)
    ELSE BigDivPow10(qr[1], n - 1, TRUE)
BigDivPow10(a, n, dropped) ==
    IF n = 0 THEN <<a, dropped>> ELSE BigDivPow10Step(BigDivMod(a, 10), n, dropped)

\* the lowest binary digits of a that are zero, counted
RECURSIVE IntLowZeros(_)
IntLowZeros(n) == IF n % 2 = 1 THEN 0 ELSE 1 + IntLowZeros(n \div 2)
RECURSIVE BigLowZeros(_)
BigLowZeros(a) ==
    IF a[1] = 0 THEN 15 + BigLowZeros(Tail(a)) ELSE IntLowZeros(a[1])

\* significand bits of each format, the exponent of its smallest subnormal
\* and the exponent of the unit in the last place of its largest binade
FullTypes == {"f16", "bf16", "f32_full", "f64_full"}
Bits(T) ==
    CASE T = "f16" -> 11 [] T = "bf16" -> 8 [] T = "f32_full" -> 24 [] T = "f64_full" -> 53
MinExp(T) ==
    CASE T = "f16" -> 0 - 24 [] T = "bf16" -> 0 - 133
      [] T = "f32_full" -> 0 - 149 [] T = "f64_full" -> 0 - 1074
MaxExp(T) ==
    CASE T = "f16" -> 5 [] T = "bf16" -> 120 [] T = "f32_full" -> 104 [] T = "f64_full" -> 971

WZero == [k |-> "fin", s |-> 0, m |-> <<>>, e |-> 0]
WInf(s) == [k |-> "inf", s |-> s, m |-> <<>>, e |-> 0]
WNaN == [k |-> "nan", s |-> 0, m |-> <<>>, e |-> 0]

\* the float (-1)^s * m * 2^e, with m made odd: z is the number of its low
\* zero digits
WFinOdd(s, m, e, z) == [k |-> "fin", s |-> s, m |-> BigShr(m, z), e |-> e + z]
WFin(s, m, e) == IF m = <<>> THEN WZero ELSE WFinOdd(s, m, e, BigLowZeros(m))

\* (-1)^s * r * 2^f with r within the precision of T: infinite beyond the
\* largest finite value
WPack(T, s, r, f) ==
    IF BigLen(r) + f > MaxExp(T) + Bits(T) THEN WInf(s) ELSE WFin(s, r, f)

\* m without its k >= 1 lowest binary digits (hi), rounded to nearest, a tie
\* to even
WRoundOff(m, k, hi) ==
    IF BigBit(m, k) = 1 /\ (BigLow(m, k - 1) \/ BigBit(hi, 1) = 1)
    THEN BigAdd(hi, <<1>>)
    ELSE hi

\* m * 2^e in units of 2^q
WRoundTo(T, s, m, e, q) ==
    IF q <= e THEN WPack(T, s, m, e)
    ELSE WPack(T, s, WRoundOff(m, q - e, BigShr(m, q - e)), q)

\* the exponent of the unit in the last place of a value whose leading
\* digit would put it at top: not below that of the subnormals
WQuantum(T, top) == IF top > MinExp(T) THEN top ELSE MinExp(T)

\* (-1)^s * m * 2^e rounded into the format T
WRound(T, s, m, e) ==
    IF m = <<>> THEN WZero
    ELSE WRoundTo(T, s, m, e, WQuantum(T, e + BigLen(m) - Bits(T)))

\* the same for a value strictly between m * 2^e and (m + 1) * 2^e when
\* sticky, m having more digits than the format
WRoundSticky(T, s, m, e, sticky) ==
    WRound(T, s, IF sticky THEN BigAdd(BigShl(m, 1), <<1>>) ELSE m,
           IF sticky THEN e - 1 ELSE e)

\* d * 2^sh / 10^n, given as quotient and dropped remainder qs, as a float
WLitQuot(T, qs, sh) == WRoundSticky(T, 0, qs[1], 0 - sh, qs[2])
WLitDiv(T, d, n, sh) == WLitQuot(T, BigDivPow10(BigShl(BigOfInt(d), sh), n, FALSE), sh)

\* the decimal literal d * 10^e10 (d >= 0) read as a float of type T
WLit(T, d, e10) ==
    IF e10 >= 0 THEN WRound(T, 0, BigMul(BigOfInt(d), BigPow10(e10)), 0)
    ELSE WLitDiv(T, d, 0 - e10, Bits(T) + 2 + 4 * (0 - e10))

\* conversion between formats, rounding when the target is the narrower one
WConvert(T, x) == IF x.k = "fin" THEN WRound(T, x.s, x.m, x.e) ELSE x

WIsNaN(x) == x.k = "nan"
WAbs(x) == [x EXCEPT !.s = 0]
WNeg(x) == IF x.k = "nan" \/ x = WZero THEN x ELSE [x EXCEPT !.s = 1 - x.s]

\* -1, 0, 1 as mx * 2^ex <, =, > my * 2^ey, both in units of 2^e
WCmpAligned(mx, ex, my, ey, e) == BigCmp(BigShl(mx, ex - e), BigShl(my, ey - e))

\* -1, 0, 1 as |x| < |y|, |x| = |y|, |x| > |y| for finite x and y
WCmpMag(x, y) == WCmpAligned(x.m, x.e, y.m, y.e, IF x.e < y.e THEN x.e ELSE y.e)

\* x <= y on floats: false when either is NaN
WLe(x, y) ==
    /\ x.k # "nan" /\ y.k # "nan"
    /\ IF x.k = "inf" THEN (x.s = 1 \/ (y.k = "inf" /\ y.s = 0))
       ELSE IF y.k = "inf" THEN y.s = 0
       ELSE IF x.s # y.s THEN x.s = 1
       ELSE WCmpMag(IF x.s = 0 THEN x ELSE y, IF x.s = 0 THEN y ELSE x) <= 0

\* max: a NaN argument is ignored when the other is a number
WMax(x, y) ==
    IF x.k = "nan" THEN y ELSE IF y.k = "nan" THEN x ELSE IF WLe(y, x) THEN x ELSE y

\* (-1)^sx * a * 2^e + (-1)^sy * b * 2^e, c comparing a with b
WAddSigned(T, sx, a, sy, b, e, c) ==
    WRound(T, IF sx = sy \/ c >= 0 THEN sx ELSE sy,
           IF sx = sy THEN BigAdd(a, b) ELSE IF c >= 0 THEN BigSub(a, b) ELSE BigSub(b, a),
           e)
WAddMag(T, sx, a, sy, b, e) == WAddSigned(T, sx, a, sy, b, e, BigCmp(a, b))
WAddAligned(T, x, y, e) ==
    WAddMag(T, x.s, BigShl(x.m, x.e - e), y.s, BigShl(y.m, y.e - e), e)

WAdd(T, x, y) ==
    IF x.k = "nan" \/ y.k = "nan" THEN WNaN
    ELSE IF x.k = "inf" THEN (IF y.k = "inf" /\ y.s # x.s THEN WNaN ELSE x)
    ELSE IF y.k = "inf" THEN y
    ELSE WAddAligned(T, x, y, IF x.e < y.e THEN x.e ELSE y.e)

WSub(T, x, y) == WAdd(T, x, WNeg(y))

WMul(T, x, y) ==
    IF x.k = "nan" \/ y.k = "nan" THEN WNaN
    ELSE IF x.k = "inf" \/ y.k = "inf"
         THEN (IF x = WZero \/ y = WZero THEN WNaN ELSE WInf((x.s + y.s) % 2))
    ELSE WRound(T, (x.s + y.s) % 2, BigMul(x.m, y.m), x.e + y.e)

(***************************************************************************)
(* impl IsClose for f32 / f64                                              *)
(***************************************************************************)
\* The default tolerances 1e-6 (f32) and 1e-9 (f64), scaled to the reduced
\* format: both are positive, below 1.0, and the f64 one is the smaller.
f32_ZERO_TOL == 0
f32_ABS_TOL == 2
f32_REL_TOL == 2
f64_ZERO_TOL == 0
f64_ABS_TOL == 1
f64_REL_TOL == 1

\* Variant: the relative term scaled by |self| alone instead of the larger
\* magnitude.
f32_is_close_tol_no_max(self, rhs, rel_tol, abs_tol) ==
    LET tol == FAdd(FMul(FAbs(self), rel_tol), abs_tol)
    IN FLe(FAbs(FSub(self, rhs)), tol)

\* Variant: < in place of <=.
f32_is_close_tol_strict(self, rhs, rel_tol, abs_tol) ==
    LET tol == FAdd(FMul(FMax(FAbs(self), FAbs(rhs)), rel_tol), abs_tol)
    IN ~IsNaN(tol) /\ ~IsNaN(FSub(self, rhs)) /\ FAbs(FSub(self, rhs)) < tol

\* Variant: equal operands taken as close before the formula is applied.
f32_is_close_tol_eq_first(self, rhs, rel_tol, abs_tol) ==
    LET tol == FAdd(FMul(FMax(FAbs(self), FAbs(rhs)), rel_tol), abs_tol)
    IN FEq(self, rhs) \/ FLe(FAbs(FSub(self, rhs)), tol)

\* <f32 as IsClose>::is_close_tol
f32_is_close_tol(self, rhs, rel_tol, abs_tol) ==
    LET tol == FAdd(FMul(FMax(FAbs(self), FAbs(rhs)), rel_tol), abs_tol)
    IN FLe(FAbs(FSub(self, rhs)), tol)

\* <f64 as IsClose>::is_close_tol
f64_is_close_tol(self, rhs, rel_tol, abs_tol) ==
    LET tol == FAdd(FMul(FMax(FAbs(self), FAbs(rhs)), rel_tol), abs_tol)
    IN FLe(FAbs(FSub(self, rhs)), tol)

\* <f32 as IsClose>::is_close_tol and <f64 as IsClose>::is_close_tol at full
\* width, T the format of the arithmetic
full_is_close_tol(T, self, rhs, rel_tol, abs_tol) ==
    LET tol == WAdd(T, WMul(T, WMax(WAbs(self), WAbs(rhs)), rel_tol), abs_tol)
    IN WLe(WAbs(WSub(T, self, rhs)), tol)

\* f16::to_f32, bf16::to_f32
to_f32(x) == WConvert("f32_full", x)

\* f16::from_f32_const, bf16::from_f32_const
from_f32_const(T, x) == WConvert(T, x)

\* Variant: the formula worked out in the 16-bit format itself.
f16_is_close_tol_narrow(self, other, rel_tol, abs_tol) ==
    full_is_close_tol("f16", self, other, rel_tol, abs_tol)

\* <f16 as IsClose>::is_close_tol
f16_is_close_tol(self, other, rel_tol, abs_tol) ==
    full_is_close_tol("f32_full", to_f32(self), to_f32(other),
                      to_f32(rel_tol), to_f32(abs_tol))

\* <bf16 as IsClose>::is_close_tol
bf16_is_close_tol(self, other, rel_tol, abs_tol) ==
    full_is_close_tol("f32_full", to_f32(self), to_f32(other),
                      to_f32(rel_tol), to_f32(abs_tol))

\* f32 and f64 at the reduced width; the types at full width are f32_full,
\* f64_full, f16 and bf16
ScalarTypes == {"f32", "f64"}

ZERO_TOL(T) ==
    CASE T = "f32" -> f32_ZERO_TOL
      [] T = "f64" -> f64_ZERO_TOL
      [] T = "f32_full" -> WLit("f32_full", 0, 0)
      [] T = "f64_full" -> WLit("f64_full", 0, 0)

\* Variant: the defaults of f32 and f64 exchanged.
ABS_TOL_exchanged(T) ==
    CASE T = "f32" -> f64_ABS_TOL
      [] T = "f64" -> f32_ABS_TOL
      [] T = "f32_full" -> WLit("f64_full", 1, 0 - 9)
      [] T = "f64_full" -> WLit("f32_full", 1, 0 - 6)
      [] T = "f16" -> from_f32_const("f16", WLit("f32_full", 1, 0 - 3))
      [] T = "bf16" -> from_f32_const("bf16", WLit("f32_full", 1, 0 - 2))

ABS_TOL(T) ==
    CASE T = "f32" -> f32_ABS_TOL
      [] T = "f64" -> f64_ABS_TOL
      [] T = "f32_full" -> WLit("f32_full", 1, 0 - 6)
      [] T = "f64_full" -> WLit("f64_full", 1, 0 - 9)
      [] T = "f16" -> from_f32_const("f16", WLit("f32_full", 1, 0 - 3))
      [] T = "bf16" -> from_f32_const("bf16", WLit("f32_full", 1, 0 - 2))

REL_TOL(T) ==
    CASE T = "f32" -> f32_REL_TOL
      [] T = "f64" -> f64_REL_TOL
      [] T = "f32_full" -> WLit("f32_full", 1, 0 - 6)
      [] T = "f64_full" -> WLit("f64_full", 1, 0 - 9)
      [] T = "f16" -> from_f32_const("f16", WLit("f32_full", 1, 0 - 3))
      [] T = "bf16" -> from_f32_const("bf16", WLit("f32_full", 1, 0 - 2))

\* <T as IsClose>::is_close_tol for a scalar T
scalar_is_close_tol(T, self, rhs, rel_tol, abs_tol) ==
    CASE T = "f32" -> f32_is_close_tol(self, rhs, rel_tol, abs_tol)
      [] T = "f64" -> f64_is_close_tol(self, rhs, rel_tol, abs_tol)
      [] T \in {"f32_full", "f64_full"} -> full_is_close_tol(T, self, rhs, rel_tol, abs_tol)
      [] T = "f16" -> f16_is_close_tol(self, rhs, rel_tol, abs_tol)
      [] T = "bf16" -> bf16_is_close_tol(self, rhs, rel_tol, abs_tol)

(***************************************************************************)
(* impl IsClose for the euclid types.  A value is a record of its fields;  *)
(* T is the scalar type of the leaves.  The single field of the tuple      *)
(* structs Length and Scale (self.0) is named f0.                          *)
(***************************************************************************)

\* <V as IsClose>::is_close_tol as the calls on the fields resolve it; defined
\* after the impls.
RECURSIVE is_close_tol(_, _, _, _, _, _)

Angle_is_close_tol(T, self, rhs, rel_tol, abs_tol) ==
    /\ is_close_tol("scalar", T, self.radians, rhs.radians, rel_tol, abs_tol)

Point2D_is_close_tol(T, self, rhs, rel_tol, abs_tol) ==
    /\ is_close_tol("scalar", T, self.x, rhs.x, rel_tol, abs_tol)
    /\ is_close_tol("scalar", T, self.y, rhs.y, rel_tol, abs_tol)

Point3D_is_close_tol(T, self, rhs, rel_tol, abs_tol) ==
    /\ is_close_tol("scalar", T, self.x, rhs.x, rel_tol, abs_tol)
    /\ is_close_tol("scalar", T, self.y, rhs.y, rel_tol, abs_tol)
    /\ is_close_tol("scalar", T, self.z, rhs.z, rel_tol, abs_tol)

Size2D_is_close_tol(T, self, rhs, rel_tol, abs_tol) ==
    /\ is_close_tol("scalar", T, self.width, rhs.width, rel_tol, abs_tol)
    /\ is_close_tol("scalar", T, self.height, rhs.height, rel_tol, abs_tol)

Size3D_is_close_tol(T, self, rhs, rel_tol, abs_tol) ==
    /\ is_close_tol("scalar", T, self.width, rhs.width, rel_tol, abs_tol)
    /\ is_close_tol("scalar", T, self.height, rhs.height, rel_tol, abs_tol)
    /\ is_close_tol("scalar", T, self.depth, rhs.depth, rel_tol, abs_tol)

Vector2D_is_close_tol(T, self, rhs, rel_tol, abs_tol) ==
    /\ is_close_tol("scalar", T, self.x, rhs.x, rel_tol, abs_tol)
    /\ is_close_tol("scalar", T, self.y, rhs.y, rel_tol, abs_tol)

Vector3D_is_close_tol(T, self, rhs, rel_tol, abs_tol) ==
    /\ is_close_tol("scalar", T, self.x, rhs.x, rel_tol, abs_tol)
    /\ is_close_tol("scalar", T, self.y, rhs.y, rel_tol, abs_tol)
    /\ is_close_tol("scalar", T, self.z, rhs.z, rel_tol, abs_tol)

\* Variant: the two corners taken as an unordered pair.
Box2D_is_close_tol_unordered(T, self, rhs, rel_tol, abs_tol) ==
    \/ /\ is_close_tol("Point2D", T, self.min, rhs.min, rel_tol, abs_tol)
       /\ is_close_tol("Point2D", T, self.max, rhs.max, rel_tol, abs_tol)
    \/ /\ is_close_tol("Point2D", T, self.min, rhs.max, rel_tol, abs_tol)
       /\ is_close_tol("Point2D", T, self.max, rhs.min, rel_tol, abs_tol)

Box2D_is_close_tol(T, self, rhs, rel_tol, abs_tol) ==
    /\ is_close_tol("Point2D", T, self.min, rhs.min, rel_tol, abs_tol)
    /\ is_close_tol("Point2D", T, self.max, rhs.max, rel_tol, abs_tol)

Box3D_is_close_tol(T, self, rhs, rel_tol, abs_tol) ==
    /\ is_close_tol("Point3D", T, self.min, rhs.min, rel_tol, abs_tol)
    /\ is_close_tol("Point3D", T, self.max, rhs.max, rel_tol, abs_tol)

HomogeneousVector_is_close_tol(T, self, rhs, rel_tol, abs_tol) ==
    /\ is_close_tol("scalar", T, self.x, rhs.x, rel_tol, abs_tol)
    /\ is_close_tol("scalar", T, self.y, rhs.y, rel_tol, abs_tol)
    /\ is_close_tol("scalar", T, self.z, rhs.z, rel_tol, abs_tol)
    /\ is_close_tol("scalar", T, self.w, rhs.w, rel_tol, abs_tol)

Length_is_close_tol(T, self, rhs, rel_tol, abs_tol) ==
    /\ is_close_tol("scalar", T, self.f0, rhs.f0, rel_tol, abs_tol)

Rect_is_close_tol(T, self, rhs, rel_tol, abs_tol) ==
    /\ is_close_tol("Point2D", T, self.origin, rhs.origin, rel_tol, abs_tol)
    /\ is_close_tol("Size2D", T, self.size, rhs.size, rel_tol, abs_tol)

Rotation2D_is_close_tol(T, self, rhs, rel_tol, abs_tol) ==
    /\ is_close_tol("scalar", T, self.angle, rhs.angle, rel_tol, abs_tol)

\* Variant: a quaternion taken as equivalent to its negation.
Rotation3D_is_close_tol_double_cover(T, self, rhs, rel_tol, abs_tol) ==
    \/ /\ is_close_tol("scalar", T, self.i, rhs.i, rel_tol, abs_tol)
       /\ is_close_tol("scalar", T, self.j, rhs.j, rel_tol, abs_tol)
       /\ is_close_tol("scalar", T, self.k, rhs.k, rel_tol, abs_tol)
       /\ is_close_tol("scalar", T, self.r, rhs.r, rel_tol, abs_tol)
    \/ /\ is_close_tol("scalar", T, self.i, FNeg(rhs.i), rel_tol, abs_tol)
       /\ is_close_tol("scalar", T, self.j, FNeg(rhs.j), rel_tol, abs_tol)
       /\ is_close_tol("scalar", T, self.k, FNeg(rhs.k), rel_tol, abs_tol)
       /\ is_close_tol("scalar", T, self.r, FNeg(rhs.r), rel_tol, abs_tol)

Rotation3D_is_close_tol(T, self, rhs, rel_tol, abs_tol) ==
    /\ is_close_tol("scalar", T, self.i, rhs.i, rel_tol, abs_tol)
    /\ is_close_tol("scalar", T, self.j, rhs.j, rel_tol, abs_tol)
    /\ is_close_tol("scalar", T, self.k, rhs.k, rel_tol, abs_tol)
    /\ is_close_tol("scalar", T, self.r, rhs.r, rel_tol, abs_tol)

\* Variant: the translation left out.
RigidTransform3D_is_close_tol_rotation_only(T, self, rhs, rel_tol, abs_tol) ==
    is_close_tol("Rotation3D", T, self.rotation, rhs.rotation, rel_tol, abs_tol)

RigidTransform3D_is_close_tol(T, self, rhs, rel_tol, abs_tol) ==
    /\ is_close_tol("Rotation3D", T, self.rotation, rhs.rotation, rel_tol, abs_tol)
    /\ is_close_tol("Vector3D", T, self.translation, rhs.translation, rel_tol, abs_tol)

Scale_is_close_tol(T, self, rhs, rel_tol, abs_tol) ==
    /\ is_close_tol("scalar", T, self.f0, rhs.f0, rel_tol, abs_tol)

SideOffsets2D_is_close_tol(T, self, rhs, rel_tol, abs_tol) ==
    /\ is_close_tol("scalar", T, self.top, rhs.top, rel_tol, abs_tol)
    /\ is_close_tol("scalar", T, self.right, rhs.right, rel_tol, abs_tol)
    /\ is_close_tol("scalar", T, self.bottom, rhs.bottom, rel_tol, abs_tol)
    /\ is_close_tol("scalar", T, self.left, rhs.left, rel_tol, abs_tol)

\* Variant: the coefficient m32 left out of the conjunction.
Transform2D_is_close_tol_drop_m32(T, self, rhs, rel_tol, abs_tol) ==
    /\ is_close_tol("scalar", T, self.m11, rhs.m11, rel_tol, abs_tol)
    /\ is_close_tol("scalar", T, self.m12, rhs.m12, rel_tol, abs_tol)
    /\ is_close_tol("scalar", T, self.m21, rhs.m21, rel_tol, abs_tol)
    /\ is_close_tol("scalar", T, self.m22, rhs.m22, rel_tol, abs_tol)
    /\ is_close_tol("scalar", T, self.m31, rhs.m31, rel_tol, abs_tol)

Transform2D_is_close_tol(T, self, rhs, rel_tol, abs_tol) ==
    /\ is_close_tol("scalar", T, self.m11, rhs.m11, rel_tol, abs_tol)
    /\ is_close_tol("scalar", T, self.m12, rhs.m12, rel_tol, abs_tol)
    /\ is_close_tol("scalar", T, self.m21, rhs.m21, rel_tol, abs_tol)
    /\ is_close_tol("scalar", T, self.m22, rhs.m22, rel_tol, abs_tol)
    /\ is_close_tol("scalar", T, self.m31, rhs.m31, rel_tol, abs_tol)
    /\ is_close_tol("scalar", T, self.m32, rhs.m32, rel_tol, abs_tol)

Transform3D_is_close_tol(T, self, rhs, rel_tol, abs_tol) ==
    /\ is_close_tol("scalar", T, self.m11, rhs.m11, rel_tol, abs_tol)
    /\ is_close_tol("scalar", T, self.m12, rhs.m12, rel_tol, abs_tol)
    /\ is_close_tol("scalar", T, self.m13, rhs.m13, rel_tol, abs_tol)
    /\ is_close_tol("scalar", T, self.m14, rhs.m14, rel_tol, abs_tol)
    /\ is_close_tol("scalar", T, self.m21, rhs.m21, rel_tol, abs_tol)
    /\ is_close_tol("scalar", T, self.m22, rhs.m22, rel_tol, abs_tol)
    /\ is_close_tol("scalar", T, self.m23, rhs.m23, rel_tol, abs_tol)
    /\ is_close_tol("scalar", T, self.m24, rhs.m24, rel_tol, abs_tol)
    /\ is_close_tol("scalar", T, self.m31, rhs.m31, rel_tol, abs_tol)
    /\ is_close_tol("scalar", T, self.m32, rhs.m32, rel_tol, abs_tol)
    /\ is_close_tol("scalar", T, self.m33, rhs.m33, rel_tol, abs_tol)
    /\ is_close_tol("scalar", T, self.m34, rhs.m34, rel_tol, abs_tol)
    /\ is_close_tol("scalar", T, self.m41, rhs.m41, rel_tol, abs_tol)
    /\ is_close_tol("scalar", T, self.m42, rhs.m42, rel_tol, abs_tol)
    /\ is_close_tol("scalar", T, self.m43, rhs.m43, rel_tol, abs_tol)
    /\ is_close_tol("scalar", T, self.m44, rhs.m44, rel_tol, abs_tol)

Translation2D_is_close_tol(T, self, rhs, rel_tol, abs_tol) ==
    /\ is_close_tol("scalar", T, self.x, rhs.x, rel_tol, abs_tol)
    /\ is_close_tol("scalar", T, self.y, rhs.y, rel_tol, abs_tol)

Translation3D_is_close_tol(T, self, rhs, rel_tol, abs_tol) ==
    /\ is_close_tol("scalar", T, self.x, rhs.x, rel_tol, abs_tol)
    /\ is_close_tol("scalar", T, self.y, rhs.y, rel_tol, abs_tol)
    /\ is_close_tol("scalar", T, self.z, rhs.z, rel_tol, abs_tol)

CompositeTypes ==
    {"Angle", "Point2D", "Point3D", "Size2D",
     "Size3D", "Vector2D", "Vector3D", "Box2D",
     "Box3D", "HomogeneousVector", "Length", "Rect",
     "Rotation2D", "Rotation3D", "RigidTransform3D", "Scale",
     "SideOffsets2D", "Transform2D", "Transform3D", "Translation2D",
     "Translation3D"}

ValueTypes == {"scalar"} \cup CompositeTypes

\* Variant: the composite types with a default absolute tolerance of their own.
V_ABS_TOL_own(V, T) == IF V \in CompositeTypes THEN ZERO_TOL(T) ELSE ABS_TOL(T)

\* const ZERO_TOL / ABS_TOL / REL_TOL of a value type V over the scalar T: every
\* euclid impl takes them from <T as IsClose>.
V_ZERO_TOL(V, T) == ZERO_TOL(T)
V_ABS_TOL(V, T) == ABS_TOL(T)
V_REL_TOL(V, T) == REL_TOL(T)

\* <V as IsClose>::is_close_tol, resolved on the value type
is_close_tol(V, T, self, rhs, rel_tol, abs_tol) ==
    CASE V = "scalar" -> scalar_is_close_tol(T, self, rhs, rel_tol, abs_tol)
      [] V = "Angle" -> Angle_is_close_tol(T, self, rhs, rel_tol, abs_tol)
      [] V = "Point2D" -> Point2D_is_close_tol(T, self, rhs, rel_tol, abs_tol)
      [] V = "Point3D" -> Point3D_is_close_tol(T, self, rhs, rel_tol, abs_tol)
      [] V = "Size2D" -> Size2D_is_close_tol(T, self, rhs, rel_tol, abs_tol)
      [] V = "Size3D" -> Size3D_is_close_tol(T, self, rhs, rel_tol, abs_tol)
      [] V = "Vector2D" -> Vector2D_is_close_tol(T, self, rhs, rel_tol, abs_tol)
      [] V = "Vector3D" -> Vector3D_is_close_tol(T, self, rhs, rel_tol, abs_tol)
      [] V = "Box2D" -> Box2D_is_close_tol(T, self, rhs, rel_tol, abs_tol)
      [] V = "Box3D" -> Box3D_is_close_tol(T, self, rhs, rel_tol, abs_tol)
      [] V = "HomogeneousVector" -> HomogeneousVector_is_close_tol(T, self, rhs, rel_tol, abs_tol)
      [] V = "Length" -> Length_is_close_tol(T, self, rhs, rel_tol, abs_tol)
      [] V = "Rect" -> Rect_is_close_tol(T, self, rhs, rel_tol, abs_tol)
      [] V = "Rotation2D" -> Rotation2D_is_close_tol(T, self, rhs, rel_tol, abs_tol)
      [] V = "Rotation3D" -> Rotation3D_is_close_tol(T, self, rhs, rel_tol, abs_tol)
      [] V = "RigidTransform3D" -> RigidTransform3D_is_close_tol(T, self, rhs, rel_tol, abs_tol)
      [] V = "Scale" -> Scale_is_close_tol(T, self, rhs, rel_tol, abs_tol)
      [] V = "SideOffsets2D" -> SideOffsets2D_is_close_tol(T, self, rhs, rel_tol, abs_tol)
      [] V = "Transform2D" -> Transform2D_is_close_tol(T, self, rhs, rel_tol, abs_tol)
      [] V = "Transform3D" -> Transform3D_is_close_tol(T, self, rhs, rel_tol, abs_tol)
      [] V = "Translation2D" -> Translation2D_is_close_tol(T, self, rhs, rel_tol, abs_tol)
      [] V = "Translation3D" -> Translation3D_is_close_tol(T, self, rhs, rel_tol, abs_tol)

(***************************************************************************)
(* The shape of the euclid types is given further down.  Memory: operands  *)
(* are places.  A cell holds an owned value or a reference to another      *)
(* cell; is_close_tol takes the addresses of its two operands (&self and   *)
(* rhs: &Rhs).  A type is the chain of reference kinds around the value    *)
(* type V, outermost first: <<>> is V, <<"ref">> is &V, <<"ref", "mut">>   *)
(* is &&mut V.                                                             *)
(***************************************************************************)
ValCell(v) == [kind |-> "val", val |-> v, to |-> 0]
RefCell(k, a) == [kind |-> k, val |-> 0, to |-> a]
NoCell == [kind |-> "none", val |-> 0, to |-> 0]

\* dereference of the reference held in cell p
Deref(m, p) == m[p].to

\* const ZERO_TOL / ABS_TOL / REL_TOL of the reference impls: each is
\* <Typ as IsClose>::ZERO_TOL etc. of the type under the reference.
RECURSIVE Typ_ZERO_TOL(_, _, _)
Typ_ZERO_TOL(S, V, T) ==
    IF S = <<>> THEN V_ZERO_TOL(V, T) ELSE Typ_ZERO_TOL(Tail(S), V, T)
RECURSIVE Typ_ABS_TOL(_, _, _)
Typ_ABS_TOL(S, V, T) ==
    IF S = <<>> THEN V_ABS_TOL(V, T) ELSE Typ_ABS_TOL(Tail(S), V, T)
RECURSIVE Typ_REL_TOL(_, _, _)
Typ_REL_TOL(S, V, T) ==
    IF S = <<>> THEN V_REL_TOL(V, T) ELSE Typ_REL_TOL(Tail(S), V, T)

\* <S as IsClose<R>>::is_close_tol(self, rhs, rel_tol, abs_tol) in memory m
RECURSIVE typ_is_close_tol(_, _, _, _, _, _, _, _, _)

\* impl IsClose<Typ> for &Typ
ref_val_is_close_tol(Typ, V, T, m, self, rhs, rel_tol, abs_tol) ==
    typ_is_close_tol(Typ, Typ, V, T, m, Deref(m, self), rhs, rel_tol, abs_tol)

\* impl IsClose<Typ> for &mut Typ
mut_val_is_close_tol(Typ, V, T, m, self, rhs, rel_tol, abs_tol) ==
    typ_is_close_tol(Typ, Typ, V, T, m, Deref(m, self), rhs, rel_tol, abs_tol)

\* impl IsClose<&Typ> for Typ
val_ref_is_close_tol(Typ, V, T, m, self, rhs, rel_tol, abs_tol) ==
    typ_is_close_tol(Typ, Typ, V, T, m, self, Deref(m, rhs), rel_tol, abs_tol)

\* impl IsClose<&mut Typ> for Typ
val_mut_is_close_tol(Typ, V, T, m, self, rhs, rel_tol, abs_tol) ==
    typ_is_close_tol(Typ, Typ, V, T, m, self, Deref(m, rhs), rel_tol, abs_tol)

\* Variant: self dereferenced for both sides.
ref_ref_is_close_tol_self_twice(Typ, V, T, m, self, rhs, rel_tol, abs_tol) ==
    typ_is_close_tol(Typ, Typ, V, T, m, Deref(m, self), Deref(m, self),
                     rel_tol, abs_tol)

\* impl IsClose for &Typ
ref_ref_is_close_tol(Typ, V, T, m, self, rhs, rel_tol, abs_tol) ==
    typ_is_close_tol(Typ, Typ, V, T, m, Deref(m, self), Deref(m, rhs),
                     rel_tol, abs_tol)

\* impl IsClose<&Typ> for &mut Typ
mut_ref_is_close_tol(Typ, V, T, m, self, rhs, rel_tol, abs_tol) ==
    typ_is_close_tol(Typ, Typ, V, T, m, Deref(m, self), Deref(m, rhs),
                     rel_tol, abs_tol)

\* impl IsClose<&mut Typ> for &Typ
ref_mut_is_close_tol(Typ, V, T, m, self, rhs, rel_tol, abs_tol) ==
    typ_is_close_tol(Typ, Typ, V, T, m, Deref(m, self), Deref(m, rhs),
                     rel_tol, abs_tol)

\* impl IsClose for &mut Typ
mut_mut_is_close_tol(Typ, V, T, m, self, rhs, rel_tol, abs_tol) ==
    typ_is_close_tol(Typ, Typ, V, T, m, Deref(m, self), Deref(m, rhs),
                     rel_tol, abs_tol)

\* Some impl of the crate gives S: IsClose<R>
Resolvable(S, R) ==
    \/ S = R
    \/ Len(S) = Len(R) + 1 /\ Tail(S) = R
    \/ Len(R) = Len(S) + 1 /\ Tail(R) = S
    \/ Len(S) = Len(R) /\ Len(S) >= 1 /\ Tail(S) = Tail(R)

\* trait resolution: the one impl whose Self and Rhs are S and R
typ_is_close_tol(S, R, V, T, m, self, rhs, rel_tol, abs_tol) ==
    CASE S = <<>> /\ R = <<>> ->
            is_close_tol(V, T, m[self].val, m[rhs].val, rel_tol, abs_tol)
      [] Len(S) = Len(R) + 1 /\ Head(S) = "ref" ->
            ref_val_is_close_tol(R, V, T, m, self, rhs, rel_tol, abs_tol)
      [] Len(S) = Len(R) + 1 /\ Head(S) = "mut" ->
            mut_val_is_close_tol(R, V, T, m, self, rhs, rel_tol, abs_tol)
      [] Len(R) = Len(S) + 1 /\ Head(R) = "ref" ->
            val_ref_is_close_tol(S, V, T, m, self, rhs, rel_tol, abs_tol)
      [] Len(R) = Len(S) + 1 /\ Head(R) = "mut" ->
            val_mut_is_close_tol(S, V, T, m, self, rhs, rel_tol, abs_tol)
      [] Len(S) = Len(R) /\ Len(S) >= 1 /\ Head(S) = "ref" /\ Head(R) = "ref" ->
            ref_ref_is_close_tol(Tail(S), V, T, m, self, rhs, rel_tol, abs_tol)
      [] Len(S) = Len(R) /\ Len(S) >= 1 /\ Head(S) = "mut" /\ Head(R) = "ref" ->
            mut_ref_is_close_tol(Tail(S), V, T, m, self, rhs, rel_tol, abs_tol)
      [] Len(S) = Len(R) /\ Len(S) >= 1 /\ Head(S) = "ref" /\ Head(R) = "mut" ->
            ref_mut_is_close_tol(Tail(S), V, T, m, self, rhs, rel_tol, abs_tol)
      [] Len(S) = Len(R) /\ Len(S) >= 1 /\ Head(S) = "mut" /\ Head(R) = "mut" ->
            mut_mut_is_close_tol(Tail(S), V, T, m, self, rhs, rel_tol, abs_tol)

(***************************************************************************)
(* The trait's provided methods, for Self = S and Rhs = R                  *)
(***************************************************************************)
\* Variant: ZERO_TOL in place of ABS_TOL.
is_close_zero_abs(S, R, V, T, m, self, rhs) ==
    typ_is_close_tol(S, R, V, T, m, self, rhs,
                     Typ_REL_TOL(S, V, T), Typ_ZERO_TOL(S, V, T))

\* IsClose::is_close
is_close(S, R, V, T, m, self, rhs) ==
    typ_is_close_tol(S, R, V, T, m, self, rhs,
                     Typ_REL_TOL(S, V, T), Typ_ABS_TOL(S, V, T))

\* Variant: ABS_TOL in place of ZERO_TOL.
is_close_rel_tol_default_abs(S, R, V, T, m, self, rhs, rel_tol) ==
    typ_is_close_tol(S, R, V, T, m, self, rhs, rel_tol, Typ_ABS_TOL(S, V, T))

\* IsClose::is_close_rel_tol
is_close_rel_tol(S, R, V, T, m, self, rhs, rel_tol) ==
    typ_is_close_tol(S, R, V, T, m, self, rhs, rel_tol, Typ_ZERO_TOL(S, V, T))

\* Variant: REL_TOL in place of ZERO_TOL.
is_close_abs_tol_default_rel(S, R, V, T, m, self, rhs, abs_tol) ==
    typ_is_close_tol(S, R, V, T, m, self, rhs, Typ_REL_TOL(S, V, T), abs_tol)

\* IsClose::is_close_abs_tol
is_close_abs_tol(S, R, V, T, m, self, rhs, abs_tol) ==
    typ_is_close_tol(S, R, V, T, m, self, rhs, Typ_ZERO_TOL(S, V, T), abs_tol)

(***************************************************************************)
(* The shape of the euclid types: the fields the impls above read, and     *)
(* values built from their leaves in declaration order.                    *)
(***************************************************************************)

\* field name |-> value type of the field
FieldTypes(V) ==
    CASE V = "Angle" -> [radians |-> "scalar"]
      [] V = "Point2D" -> [x |-> "scalar", y |-> "scalar"]
      [] V = "Point3D" -> [x |-> "scalar", y |-> "scalar", z |-> "scalar"]
      [] V = "Size2D" -> [width |-> "scalar", height |-> "scalar"]
      [] V = "Size3D" -> [width |-> "scalar", height |-> "scalar", depth |-> "scalar"]
      [] V = "Vector2D" -> [x |-> "scalar", y |-> "scalar"]
      [] V = "Vector3D" -> [x |-> "scalar", y |-> "scalar", z |-> "scalar"]
      [] V = "Box2D" -> [min |-> "Point2D", max |-> "Point2D"]
      [] V = "Box3D" -> [min |-> "Point3D", max |-> "Point3D"]
      [] V = "HomogeneousVector" -> [x |-> "scalar", y |-> "scalar", z |-> "scalar", w |-> "scalar"]
      [] V = "Length" -> [f0 |-> "scalar"]
      [] V = "Rect" -> [origin |-> "Point2D", size |-> "Size2D"]
      [] V = "Rotation2D" -> [angle |-> "scalar"]
      [] V = "Rotation3D" -> [i |-> "scalar", j |-> "scalar", k |-> "scalar", r |-> "scalar"]
      [] V = "RigidTransform3D" -> [rotation |-> "Rotation3D", translation |-> "Vector3D"]
      [] V = "Scale" -> [f0 |-> "scalar"]
      [] V = "SideOffsets2D" -> [top |-> "scalar", right |-> "scalar", bottom |-> "scalar", left |-> "scalar"]
      [] V = "Transform2D" -> [m11 |-> "scalar", m12 |-> "scalar", m21 |-> "scalar", m22 |-> "scalar", m31 |-> "scalar", m32 |-> "scalar"]
      [] V = "Transform3D" -> [m11 |-> "scalar", m12 |-> "scalar", m13 |-> "scalar", m14 |-> "scalar", m21 |-> "scalar", m22 |-> "scalar", m23 |-> "scalar", m24 |-> "scalar", m31 |-> "scalar", m32 |-> "scalar", m33 |-> "scalar", m34 |-> "scalar", m41 |-> "scalar", m42 |-> "scalar", m43 |-> "scalar", m44 |-> "scalar"]
      [] V = "Translation2D" -> [x |-> "scalar", y |-> "scalar"]
      [] V = "Translation3D" -> [x |-> "scalar", y |-> "scalar", z |-> "scalar"]

NumLeaves(V) ==
    CASE V = "scalar" -> 1
      [] V = "Angle" -> 1
      [] V = "Point2D" -> 2
      [] V = "Point3D" -> 3
      [] V = "Size2D" -> 2
      [] V = "Size3D" -> 3
      [] V = "Vector2D" -> 2
      [] V = "Vector3D" -> 3
      [] V = "Box2D" -> 4
      [] V = "Box3D" -> 6
      [] V = "HomogeneousVector" -> 4
      [] V = "Length" -> 1
      [] V = "Rect" -> 4
      [] V = "Rotation2D" -> 1
      [] V = "Rotation3D" -> 4
      [] V = "RigidTransform3D" -> 7
      [] V = "Scale" -> 1
      [] V = "SideOffsets2D" -> 4
      [] V = "Transform2D" -> 6
      [] V = "Transform3D" -> 16
      [] V = "Translation2D" -> 2
      [] V = "Translation3D" -> 3

MakeAngle(s) ==
    [radians |-> s[1]]

MakePoint2D(s) ==
    [x |-> s[1], y |-> s[2]]

MakePoint3D(s) ==
    [x |-> s[1], y |-> s[2], z |-> s[3]]

MakeSize2D(s) ==
    [width |-> s[1], height |-> s[2]]

MakeSize3D(s) ==
    [width |-> s[1], height |-> s[2], depth |-> s[3]]

MakeVector2D(s) ==
    [x |-> s[1], y |-> s[2]]

MakeVector3D(s) ==
    [x |-> s[1], y |-> s[2], z |-> s[3]]

MakeBox2D(s) ==
    [min |-> MakePoint2D(SubSeq(s, 1, 2)),
     max |-> MakePoint2D(SubSeq(s, 3, 4))]

MakeBox3D(s) ==
    [min |-> MakePoint3D(SubSeq(s, 1, 3)),
     max |-> MakePoint3D(SubSeq(s, 4, 6))]

MakeHomogeneousVector(s) ==
    [x |-> s[1], y |-> s[2], z |-> s[3], w |-> s[4]]

MakeLength(s) ==
    [f0 |-> s[1]]

MakeRect(s) ==
    [origin |-> MakePoint2D(SubSeq(s, 1, 2)),
     size |-> MakeSize2D(SubSeq(s, 3, 4))]

MakeRotation2D(s) ==
    [angle |-> s[1]]

MakeRotation3D(s) ==
    [i |-> s[1], j |-> s[2], k |-> s[3], r |-> s[4]]

MakeRigidTransform3D(s) ==
    [rotation |-> MakeRotation3D(SubSeq(s, 1, 4)),
     translation |-> MakeVector3D(SubSeq(s, 5, 7))]

MakeScale(s) ==
    [f0 |-> s[1]]

MakeSideOffsets2D(s) ==
    [top |-> s[1], right |-> s[2], bottom |-> s[3], left |-> s[4]]

MakeTransform2D(s) ==
    [m11 |-> s[1], m12 |-> s[2], m21 |-> s[3], m22 |-> s[4], m31 |-> s[5],
     m32 |-> s[6]]

MakeTransform3D(s) ==
    [m11 |-> s[1], m12 |-> s[2], m13 |-> s[3], m14 |-> s[4], m21 |-> s[5],
     m22 |-> s[6], m23 |-> s[7], m24 |-> s[8], m31 |-> s[9], m32 |-> s[10],
     m33 |-> s[11], m34 |-> s[12], m41 |-> s[13], m42 |-> s[14], m43 |-> s[15],
     m44 |-> s[16]]

MakeTranslation2D(s) ==
    [x |-> s[1], y |-> s[2]]

MakeTranslation3D(s) ==
    [x |-> s[1], y |-> s[2], z |-> s[3]]

\* the value of type V whose leaves are the sequence s
Make(V, s) ==
    CASE V = "scalar" -> s[1]
      [] V = "Angle" -> MakeAngle(s)
      [] V = "Point2D" -> MakePoint2D(s)
      [] V = "Point3D" -> MakePoint3D(s)
      [] V = "Size2D" -> MakeSize2D(s)
      [] V = "Size3D" -> MakeSize3D(s)
      [] V = "Vector2D" -> MakeVector2D(s)
      [] V = "Vector3D" -> MakeVector3D(s)
      [] V = "Box2D" -> MakeBox2D(s)
      [] V = "Box3D" -> MakeBox3D(s)
      [] V = "HomogeneousVector" -> MakeHomogeneousVector(s)
      [] V = "Length" -> MakeLength(s)
      [] V = "Rect" -> MakeRect(s)
      [] V = "Rotation2D" -> MakeRotation2D(s)
      [] V = "Rotation3D" -> MakeRotation3D(s)
      [] V = "RigidTransform3D" -> MakeRigidTransform3D(s)
      [] V = "Scale" -> MakeScale(s)
      [] V = "SideOffsets2D" -> MakeSideOffsets2D(s)
      [] V = "Transform2D" -> MakeTransform2D(s)
      [] V = "Transform3D" -> MakeTransform3D(s)
      [] V = "Translation2D" -> MakeTranslation2D(s)
      [] V = "Translation3D" -> MakeTranslation3D(s)

(***************************************************************************)
(* The assertion macros                                                    *)
(***************************************************************************)
\* borrow() of the operand: the place of the value, for an operand given by value (V:
\* Borrow<V>) or by reference (&V and &mut V: Borrow<V>)
Borrow(m, p) == IF m[p].kind = "val" THEN p ELSE Deref(m, p)

\* Zero::ZERO of the tolerance type
Zero_ZERO(T) == IF T \in FullTypes THEN WZero ELSE 0

\* {:?} of a value
Debug(x) == [fmt |-> "{:?}", of |-> x]

\* The character U+0060 that quotes the expression in the panic message
Backtick == [char |-> 96]

\* Variant: an omitted absolute tolerance reported as the default one.
assert_failed_abs_default(V, T, lhs, rhs, rel_tol, abs_tol, args) ==
    LET zero == Zero_ZERO(T)
        def_rel == V_REL_TOL(V, T)
        def_abs == V_ABS_TOL(V, T)
        tols == CASE rel_tol # <<>> /\ abs_tol # <<>> -> <<rel_tol[1], abs_tol[1]>>
                  [] rel_tol # <<>> /\ abs_tol = <<>> -> <<rel_tol[1], def_abs>>
                  [] rel_tol = <<>> /\ abs_tol # <<>> -> <<zero, abs_tol[1]>>
                  [] rel_tol = <<>> /\ abs_tol = <<>> -> <<def_rel, def_abs>>
        head == <<"assertion ", Backtick, "left ~= right", Backtick, " failed">>
        first == IF args # <<>>
                 THEN head \o <<": ", args[1]>>
                 ELSE head
    IN <<first,
         <<"    left: ", Debug(lhs)>>,
         <<"   right: ", Debug(rhs)>>,
         <<" rel tol: ", Debug(tols[1])>>,
         <<" abs tol: ", Debug(tols[2])>>>>

\* Variant: the tolerance lines ahead of the operand lines.
assert_failed_tols_first(V, T, lhs, rhs, rel_tol, abs_tol, args) ==
    LET zero == Zero_ZERO(T)
        def_rel == V_REL_TOL(V, T)
        def_abs == V_ABS_TOL(V, T)
        tols == CASE rel_tol # <<>> /\ abs_tol # <<>> -> <<rel_tol[1], abs_tol[1]>>
                  [] rel_tol # <<>> /\ abs_tol = <<>> -> <<rel_tol[1], zero>>
                  [] rel_tol = <<>> /\ abs_tol # <<>> -> <<zero, abs_tol[1]>>
                  [] rel_tol = <<>> /\ abs_tol = <<>> -> <<def_rel, def_abs>>
        head == <<"assertion ", Backtick, "left ~= right", Backtick, " failed">>
        first == IF args # <<>>
                 THEN head \o <<": ", args[1]>>
                 ELSE head
    IN <<first,
         <<" rel tol: ", Debug(tols[1])>>,
         <<" abs tol: ", Debug(tols[2])>>,
         <<"    left: ", Debug(lhs)>>,
         <<"   right: ", Debug(rhs)>>>>

\* The panic message of assert_failed, line by line; args is <<>> (None) or
\* <<a>> (Some(format_args!(..)) rendering as a).
assert_failed(V, T, lhs, rhs, rel_tol, abs_tol, args) ==
    LET zero == Zero_ZERO(T)
        def_rel == V_REL_TOL(V, T)
        def_abs == V_ABS_TOL(V, T)
        tols == CASE rel_tol # <<>> /\ abs_tol # <<>> -> <<rel_tol[1], abs_tol[1]>>
                  [] rel_tol # <<>> /\ abs_tol = <<>> -> <<rel_tol[1], zero>>
                  [] rel_tol = <<>> /\ abs_tol # <<>> -> <<zero, abs_tol[1]>>
                  [] rel_tol = <<>> /\ abs_tol = <<>> -> <<def_rel, def_abs>>
        head == <<"assertion ", Backtick, "left ~= right", Backtick, " failed">>
        first == IF args # <<>>
                 THEN head \o <<": ", args[1]>>
                 ELSE head
    IN <<first,
         <<"    left: ", Debug(lhs)>>,
         <<"   right: ", Debug(rhs)>>,
         <<" rel tol: ", Debug(tols[1])>>,
         <<" abs tol: ", Debug(tols[2])>>>>

\* What a macro call does: the boolean of the comparison, and whether it panicked
\* with which message.
Passed(c) == [cmp |-> c, panicked |-> FALSE, report |-> <<>>]
Panicked(c, r) == [cmp |-> c, panicked |-> TRUE, report |-> r]

\* Variant: the condition of the panic inverted.
assert_is_close_inverted(V, T, m, lhs, rhs, args) ==
    LET l == Borrow(m, lhs)
        r == Borrow(m, rhs)
        c == is_close(<<>>, <<>>, V, T, m, l, r)
    IN IF c
       THEN Panicked(c, assert_failed(V, T, m[l].val, m[r].val, <<>>, <<>>, args))
       ELSE Passed(c)

\* assert_is_close!(lhs, rhs) and assert_is_close!(lhs, rhs, args..)
assert_is_close(V, T, m, lhs, rhs, args) ==
    LET l == Borrow(m, lhs)
        r == Borrow(m, rhs)
        c == is_close(<<>>, <<>>, V, T, m, l, r)
    IN IF ~c
       THEN Panicked(c, assert_failed(V, T, m[l].val, m[r].val, <<>>, <<>>, args))
       ELSE Passed(c)

\* assert_is_close_rel_tol!(lhs, rhs, rel_tol) and with args
assert_is_close_rel_tol(V, T, m, lhs, rhs, rel_tol, args) ==
    LET l == Borrow(m, lhs)
        r == Borrow(m, rhs)
        rt == Borrow(m, rel_tol)
        c == is_close_rel_tol(<<>>, <<>>, V, T, m, l, r, m[rt].val)
    IN IF ~c
       THEN Panicked(c, assert_failed(V, T, m[l].val, m[r].val,
                                      <<m[rt].val>>, <<>>, args))
       ELSE Passed(c)

\* assert_is_close_abs_tol!(lhs, rhs, abs_tol) and with args
assert_is_close_abs_tol(V, T, m, lhs, rhs, abs_tol, args) ==
    LET l == Borrow(m, lhs)
        r == Borrow(m, rhs)
        at == Borrow(m, abs_tol)
        c == is_close_abs_tol(<<>>, <<>>, V, T, m, l, r, m[at].val)
    IN IF ~c
       THEN Panicked(c, assert_failed(V, T, m[l].val, m[r].val,
                                      <<>>, <<m[at].val>>, args))
       ELSE Passed(c)

\* assert_is_close_tol!(lhs, rhs, rel_tol, abs_tol) and with args
assert_is_close_tol(V, T, m, lhs, rhs, rel_tol, abs_tol, args) ==
    LET l == Borrow(m, lhs)
        r == Borrow(m, rhs)
        rt == Borrow(m, rel_tol)
        at == Borrow(m, abs_tol)
        c == typ_is_close_tol(<<>>, <<>>, V, T, m, l, r, m[rt].val, m[at].val)
    IN IF ~c
       THEN Panicked(c, assert_failed(V, T, m[l].val, m[r].val,
                                      <<m[rt].val>>, <<m[at].val>>, args))
       ELSE Passed(c)

(***************************************************************************)
(* The memory of the caller for one call                                   *)
(***************************************************************************)
\* The value of the left operand is at address 1, of the right at 2; the
\* d-th reference around the left value is at 1 + 2d, around the right at
\* 2 + 2d.  The tolerances follow, each with one cell for a reference to it.
LhsAddr(d) == 1 + 2 * d
RhsAddr(d) == 2 + 2 * d
RelAddr(d) == 2 * MaxRefDepth + 3 + 2 * d
AbsAddr(d) == 2 * MaxRefDepth + 4 + 2 * d
MemSize == 2 * MaxRefDepth + 6

NoMem == [p \in 1..MemSize |-> NoCell]

\* Memory holding a and b behind the reference chains S and R, and the given
\* tolerances (<<>> when not given), each by value or behind one reference.
BuildMem(a, b, S, R, r, t, rf, tf) ==
    [p \in 1..MemSize |->
        IF p = LhsAddr(0) THEN ValCell(a)
        ELSE IF p = RhsAddr(0) THEN ValCell(b)
        ELSE IF \E d \in 1..Len(S) : p = LhsAddr(d)
             THEN LET d == (p - 1) \div 2
                  IN RefCell(S[Len(S) - d + 1], LhsAddr(d - 1))
        ELSE IF \E d \in 1..Len(R) : p = RhsAddr(d)
             THEN LET d == (p - 2) \div 2
                  IN RefCell(R[Len(R) - d + 1], RhsAddr(d - 1))
        ELSE IF p = RelAddr(0) /\ r # <<>> THEN ValCell(r[1])
        ELSE IF p = AbsAddr(0) /\ t # <<>> THEN ValCell(t[1])
        ELSE IF p = RelAddr(1) /\ r # <<>> /\ rf = "ref" THEN RefCell("ref", RelAddr(0))
        ELSE IF p = AbsAddr(1) /\ t # <<>> /\ tf = "ref" THEN RefCell("ref", AbsAddr(0))
        ELSE NoCell]

\* the address of a tolerance operand given in form f
TolAddr(base, f) == IF f = "ref" THEN base + 2 ELSE base

\* all reference chains of at most d levels
Chains(d) == UNION {[1..k -> {"ref", "mut"}] : k \in 0..d}

(***************************************************************************)
(* Threads that compare operands of the caller at the same time            *)
(***************************************************************************)
NumThreads == 2
Threads == 1..NumThreads

\* Variant: one place for the local tol of all threads, as a comparator that
\* kept it in a field or a static would have.
Frame_shared(t) == 1

\* the place of the locals of thread t: its own stack frame
Frame(t) == t

\* let tol = (self.abs().max(rhs.abs()) * rel_tol + abs_tol) of f32 and f64
scalar_tol(self, rhs, rel_tol, abs_tol) ==
    FAdd(FMul(FMax(FAbs(self), FAbs(rhs)), rel_tol), abs_tol)

\* (*self - *rhs).abs() <= tol
scalar_within(self, rhs, tol) == FLe(FAbs(FSub(self, rhs)), tol)

\* a thread that has not been given a comparison, and an unused frame
NoThread == [pc |-> "none", self |-> 0, rhs |-> 0, rel |-> 0, abs |-> 0,
             leaf |-> 0, result |-> FALSE]
NoFrame == [tol |-> 0, by |-> 0]

(***************************************************************************)
(* State: one caller that invokes an entry point and gets its outcome, or *)
(* shares its operands with threads that compare them.                     *)
(***************************************************************************)
VARIABLES
    pc,       \* "idle", "returned" (the call returned normally), "panicked"
    op,       \* the entry point called
    vty,      \* the value type V of the operands
    ty,       \* the scalar type T the caller works at: that of all leaves
    lform,    \* the reference chain the left operand is passed through
    rform,    \* the reference chain the right operand is passed through
    tform,    \* how the tolerances are passed: <<"val" or "ref", "val" or "ref">>
    lhs,      \* left operand (owned value)
    rhs,      \* right operand (owned value)
    rel_tol,  \* relative tolerance given by the caller: <<>> or <<r>>
    abs_tol,  \* absolute tolerance given by the caller: <<>> or <<a>>
    msg,      \* message arguments given to an assertion: <<>> or <<text>>
    mem,      \* the memory of the caller during the call
    result,   \* the boolean the comparison returned
    report,   \* the panic message: <<>> or its lines
    thread,   \* per thread: where it is in its comparison, the addresses of
              \* its arguments, the field it is at and its result
    stack     \* per frame: the local tol and the thread that wrote it

vars == <<pc, op, vty, ty, lform, rform, tform, lhs, rhs, rel_tol, abs_tol,
          msg, mem, result, report, thread, stack>>

Init ==
    /\ pc = "idle"
    /\ op = "none"
    /\ vty = "scalar"
    /\ ty \in ScalarTypes
    /\ lform = <<>>
    /\ rform = <<>>
    /\ tform = <<"val", "val">>
    /\ lhs = 0
    /\ rhs = 0
    /\ rel_tol = <<>>
    /\ abs_tol = <<>>
    /\ msg = <<>>
    /\ mem = NoMem
    /\ result = FALSE
    /\ report = <<>>
    /\ thread = [t \in Threads |-> NoThread]
    /\ stack = [p \in Threads |-> NoFrame]

\* x.is_close_tol(&y, &r, &a) on scalars of type T
Call_is_close_tol(T, a, b, r, t) ==
    /\ pc' = "returned"
    /\ op' = "is_close_tol"
    /\ ty' = T
    /\ lhs' = a
    /\ rhs' = b
    /\ rel_tol' = <<r>>
    /\ abs_tol' = <<t>>
    /\ result' = scalar_is_close_tol(T, a, b, r, t)
    /\ UNCHANGED <<vty, lform, rform, tform, msg, mem, report, thread, stack>>

\* Variant: an impl for &mut Typ that writes the right operand over the left
\* one through the mutable reference.
Call_method_mut_written(o, S, R, V, T, a, b, r, t) ==
    \E m \in {BuildMem(a, b, S, R, r, t, "val", "val")},
       self \in {LhsAddr(Len(S))}, other \in {RhsAddr(Len(R))} :
       /\ pc' = "returned"
       /\ op' = o
       /\ vty' = V
       /\ ty' = T
       /\ lform' = S
       /\ rform' = R
       /\ lhs' = a
       /\ rhs' = b
       /\ rel_tol' = r
       /\ abs_tol' = t
       /\ mem' = IF S # <<>> /\ Head(S) = "mut"
                 THEN [m EXCEPT ![LhsAddr(0)] = ValCell(b)]
                 ELSE m
       /\ result' =
            CASE o = "is_close_tol" ->
                    typ_is_close_tol(S, R, V, T, m, self, other,
                                     m[RelAddr(0)].val, m[AbsAddr(0)].val)
              [] o = "is_close" -> is_close(S, R, V, T, m, self, other)
              [] o = "is_close_rel_tol" ->
                    is_close_rel_tol(S, R, V, T, m, self, other, m[RelAddr(0)].val)
              [] o = "is_close_abs_tol" ->
                    is_close_abs_tol(S, R, V, T, m, self, other, m[AbsAddr(0)].val)
       /\ UNCHANGED <<tform, msg, report, thread, stack>>

\* <S as IsClose<R>>::o(..) on operands a and b of value type V held behind
\* the reference chains S and R; r and t are the tolerances o takes.
Call_method(o, S, R, V, T, a, b, r, t) ==
    \E m \in {BuildMem(a, b, S, R, r, t, "val", "val")},
       self \in {LhsAddr(Len(S))}, other \in {RhsAddr(Len(R))} :
       /\ pc' = "returned"
       /\ op' = o
       /\ vty' = V
       /\ ty' = T
       /\ lform' = S
       /\ rform' = R
       /\ lhs' = a
       /\ rhs' = b
       /\ rel_tol' = r
       /\ abs_tol' = t
       /\ mem' = m
       /\ result' =
            CASE o = "is_close_tol" ->
                    typ_is_close_tol(S, R, V, T, m, self, other,
                                     m[RelAddr(0)].val, m[AbsAddr(0)].val)
              [] o = "is_close" -> is_close(S, R, V, T, m, self, other)
              [] o = "is_close_rel_tol" ->
                    is_close_rel_tol(S, R, V, T, m, self, other, m[RelAddr(0)].val)
              [] o = "is_close_abs_tol" ->
                    is_close_abs_tol(S, R, V, T, m, self, other, m[AbsAddr(0)].val)
       /\ UNCHANGED <<tform, msg, report, thread, stack>>

\* the tolerances each entry point takes
TakesRel(o) == o \in {"is_close_tol", "is_close_rel_tol",
                      "assert_is_close_tol", "assert_is_close_rel_tol"}
TakesAbs(o) == o \in {"is_close_tol", "is_close_abs_tol",
                      "assert_is_close_tol", "assert_is_close_abs_tol"}
Given(b, x) == IF b THEN <<x>> ELSE <<>>

\* a macro o!(..) on operands of value type V, each given by value or behind
\* one reference (S, R), the tolerances by value or by reference (rf, tf),
\* with or without message arguments
Call_assert(o, S, R, V, T, a, b, r, t, rf, tf, args) ==
    \E m \in {BuildMem(a, b, S, R, r, t, rf, tf)},
       l \in {LhsAddr(Len(S))}, rr \in {RhsAddr(Len(R))},
       ra \in {TolAddr(RelAddr(0), rf)}, ta \in {TolAddr(AbsAddr(0), tf)} :
    \E out \in {CASE o = "assert_is_close" -> assert_is_close(V, T, m, l, rr, args)
                  [] o = "assert_is_close_rel_tol" ->
                         assert_is_close_rel_tol(V, T, m, l, rr, ra, args)
                  [] o = "assert_is_close_abs_tol" ->
                         assert_is_close_abs_tol(V, T, m, l, rr, ta, args)
                  [] o = "assert_is_close_tol" ->
                         assert_is_close_tol(V, T, m, l, rr, ra, ta, args)} :
       /\ pc' = IF out.panicked THEN "panicked" ELSE "returned"
       /\ op' = o
       /\ vty' = V
       /\ ty' = T
       /\ lform' = S
       /\ rform' = R
       /\ tform' = <<rf, tf>>
       /\ lhs' = a
       /\ rhs' = b
       /\ rel_tol' = r
       /\ abs_tol' = t
       /\ msg' = args
       /\ mem' = m
       /\ result' = out.cmp
       /\ report' = out.report
       /\ UNCHANGED <<thread, stack>>

\* the caller goes on to its next call
Return ==
    /\ pc = "returned"
    /\ pc' = "idle"
    /\ op' = "none"
    /\ vty' = "scalar"
    /\ ty' = ty
    /\ lform' = <<>>
    /\ rform' = <<>>
    /\ tform' = <<"val", "val">>
    /\ lhs' = 0
    /\ rhs' = 0
    /\ rel_tol' = <<>>
    /\ abs_tol' = <<>>
    /\ msg' = <<>>
    /\ mem' = NoMem
    /\ result' = FALSE
    /\ report' = <<>>
    /\ UNCHANGED <<thread, stack>>

(***************************************************************************)
(* The calls each specification makes                                      *)
(***************************************************************************)
\* leaf values and tolerances the composite operands are built from
CompVals == {0, One, One + Ulp(One)}
TolVals == {0, One \div 2}
\* operands passed through references and to the macros
ProbeVals == CompVals \cup {0 - One, PosInf, NaN}
Messages == {"message"}
Methods == {"is_close", "is_close_rel_tol", "is_close_abs_tol", "is_close_tol"}
Macros == {"assert_is_close", "assert_is_close_rel_tol",
           "assert_is_close_abs_tol", "assert_is_close_tol"}

\* n leaves, all x but the i-th, which is x1
Leaves(n, x, i, x1) == [k \in 1..n |-> IF k = i THEN x1 ELSE x]

\* every scalar call of is_close_tol
ScalarTol ==
    /\ pc = "idle"
    /\ \E T \in {ty}, a \in Floats, b \in Floats, r \in Floats, t \in Floats :
          Call_is_close_tol(T, a, b, r, t)

NextTol == ScalarTol \/ Return

SpecTol == Init /\ [][NextTol]_vars

\* the provided methods on owned scalars
PolicyScalar ==
    /\ pc = "idle"
    /\ \E o \in Methods \ {"is_close_tol"}, T \in {ty},
          a \in Floats, b \in Floats, x \in Floats :
          Call_method(o, <<>>, <<>>, "scalar", T, a, b,
                      Given(TakesRel(o), x), Given(TakesAbs(o), x))

\* a method on owned composites that differ from uniform values in at most
\* one leaf each
CompositeCall(os) ==
    /\ pc = "idle"
    /\ \E o \in os, V \in CompositeTypes, T \in {ty},
          x \in CompVals, x1 \in CompVals, y \in CompVals, y1 \in CompVals,
          r \in TolVals, t \in TolVals :
          \E i \in 1..NumLeaves(V) :
             \E j \in {i, (i % NumLeaves(V)) + 1} :
                \E a \in {Make(V, Leaves(NumLeaves(V), x, i, x1))},
                   b \in {Make(V, Leaves(NumLeaves(V), y, j, y1))} :
                   Call_method(o, <<>>, <<>>, V, T, a, b,
                               Given(TakesRel(o), r), Given(TakesAbs(o), t))

PolicyComposite == CompositeCall(Methods \ {"is_close_tol"})

\* a method through references
RefCall(os, vals) ==
    /\ pc = "idle"
    /\ \E o \in os, T \in {ty},
          S \in Chains(MaxRefDepth), R \in Chains(MaxRefDepth),
          a \in vals, b \in vals, r \in TolVals, t \in TolVals :
          /\ Resolvable(S, R)
          /\ Call_method(o, S, R, "scalar", T, a, b,
                         Given(TakesRel(o), r), Given(TakesAbs(o), t))

PolicyRef == RefCall(Methods \ {"is_close_tol"}, CompVals)

NextPolicy == PolicyScalar \/ PolicyComposite \/ PolicyRef \/ Return

SpecPolicy == Init /\ [][NextPolicy]_vars

CompositeTol == CompositeCall({"is_close_tol"})

NextComposite == CompositeTol \/ Return

SpecComposite == Init /\ [][NextComposite]_vars

\* is_close_tol on scalars through references
RefTol == RefCall({"is_close_tol"}, ProbeVals)

\* is_close_tol on points through references
RefTolPoint ==
    /\ pc = "idle"
    /\ \E T \in {ty},
          S \in Chains(MaxRefDepth), R \in Chains(MaxRefDepth),
          x \in CompVals, x1 \in CompVals, y \in CompVals, y1 \in CompVals,
          r \in TolVals, t \in TolVals :
          /\ Resolvable(S, R)
          /\ \E a \in {MakePoint2D(<<x, x1>>)}, b \in {MakePoint2D(<<y, y1>>)} :
                Call_method("is_close_tol", S, R, "Point2D", T, a, b, <<r>>, <<t>>)

\* the macros on scalars
AssertScalar ==
    /\ pc = "idle"
    /\ \E o \in Macros, T \in {ty}, S \in Chains(1), R \in Chains(1),
          a \in ProbeVals, b \in ProbeVals, r \in TolVals, t \in TolVals,
          rf \in {"val", "ref"}, tf \in {"val", "ref"},
          args \in {<<>>} \cup {<<x>> : x \in Messages} :
          /\ TakesRel(o) \/ (r = 0 /\ rf = "val")
          /\ TakesAbs(o) \/ (t = 0 /\ tf = "val")
          /\ Call_assert(o, S, R, "scalar", T, a, b,
                         Given(TakesRel(o), r), Given(TakesAbs(o), t), rf, tf, args)

NextRef == RefTol \/ RefTolPoint \/ AssertScalar \/ Return

SpecRef == Init /\ [][NextRef]_vars

NextAssert == AssertScalar \/ Return

SpecAssert == Init /\ [][NextAssert]_vars

(***************************************************************************)
(* Properties of the scalar formula (checked on SpecTol)                   *)
(***************************************************************************)
Returned(o) == pc = "returned" /\ op = o
RelTol == rel_tol[1]
AbsTol == abs_tol[1]
NonNeg(x) == FLe(0, x)

\* magnitudes in exact integer arithmetic on quanta
Mag(x) == IF x < 0 THEN 0 - x ELSE x
MaxMag(a, b) == IF Mag(a) >= Mag(b) THEN Mag(a) ELSE Mag(b)

\* the subtraction, the product and the sum of the formula are all exact
ExactOps(a, b, r, t) ==
    /\ IsFinite(a) /\ IsFinite(b) /\ IsFinite(r) /\ IsFinite(t)
    /\ Mag(a - b) <= MaxFinite /\ Representable(Mag(a - b))
    /\ (MaxMag(a, b) * r) % One = 0
    /\ Mag((MaxMag(a, b) * r) \div One) <= MaxFinite
    /\ Representable(Mag((MaxMag(a, b) * r) \div One))
    /\ Mag(((MaxMag(a, b) * r) \div One) + t) <= MaxFinite
    /\ Representable(Mag(((MaxMag(a, b) * r) \div One) + t))

\* |a - b| <= max(|a|, |b|) * r + t over the rationals
ExactClose(a, b, r, t) == Mag(a - b) * One <= MaxMag(a, b) * r + t * One

\* C1: for finite scalar operands and every tolerance pair, is_close_tol
\* returns |self - rhs| <= max(|self|, |rhs|) * rel_tol + abs_tol evaluated in
\* the arithmetic of the type, and agrees with that inequality over the
\* rationals whenever the difference, the product and the sum are exact.
C1_Formula ==
    (Returned("is_close_tol") /\ vty = "scalar" /\ IsFinite(lhs) /\ IsFinite(rhs)) =>
        /\ result = FLe(FAbs(FSub(lhs, rhs)),
                        FAdd(FMul(FMax(FAbs(lhs), FAbs(rhs)), RelTol), AbsTol))
        /\ ExactOps(lhs, rhs, RelTol, AbsTol) => (result = ExactClose(lhs, rhs, RelTol, AbsTol))

\* a close pair that needs both the relative term on the larger magnitude
\* and the absolute term
C1_Witness ==
    /\ Returned("is_close_tol") /\ vty = "scalar"
    /\ ExactOps(lhs, rhs, RelTol, AbsTol)
    /\ Mag(lhs) < Mag(rhs) /\ RelTol > 0 /\ AbsTol > 0
    /\ result = TRUE
    /\ ~ExactClose(lhs, rhs, RelTol, 0)
    /\ ~ExactClose(lhs, rhs, 0, AbsTol)

\* C2: for finite a, b and non-negative tolerances, a.is_close_tol(b, r, t)
\* equals b.is_close_tol(a, r, t).
C2_Symmetry ==
    (Returned("is_close_tol") /\ vty = "scalar" /\ IsFinite(lhs) /\ IsFinite(rhs)
        /\ NonNeg(RelTol) /\ NonNeg(AbsTol)) =>
        result = scalar_is_close_tol(ty, rhs, lhs, RelTol, AbsTol)

\* a pair that is close only because the relative term scales with the
\* larger operand, which is the right one
C2_Witness ==
    /\ Returned("is_close_tol") /\ vty = "scalar"
    /\ IsFinite(lhs) /\ IsFinite(rhs) /\ Mag(lhs) < Mag(rhs)
    /\ IsFinite(RelTol) /\ RelTol > 0 /\ AbsTol = 0
    /\ result = TRUE
    /\ ~FLe(FAbs(FSub(lhs, rhs)), FMul(FAbs(lhs), RelTol))

\* C3: a finite value is close to itself at every non-negative relative and
\* absolute tolerance, zero included.
C3_Reflexive ==
    (Returned("is_close_tol") /\ vty = "scalar" /\ IsFinite(lhs) /\ rhs = lhs
        /\ NonNeg(RelTol) /\ NonNeg(AbsTol)) =>
        result = TRUE

\* C4: a pair that is close at (r, t) is close at every (r2, t2) with
\* r <= r2 and t <= t2.
C4_Monotone ==
    (Returned("is_close_tol") /\ vty = "scalar" /\ result = TRUE) =>
        \A r2 \in Floats, t2 \in Floats :
            (FLe(RelTol, r2) /\ FLe(AbsTol, t2)) =>
                scalar_is_close_tol(ty, lhs, rhs, r2, t2)

\* C5: with both tolerances at ZERO_TOL, finite a and b are close exactly
\* when a == b.
C5_ZeroTol ==
    (Returned("is_close_tol") /\ vty = "scalar" /\ IsFinite(lhs) /\ IsFinite(rhs)
        /\ RelTol = ZERO_TOL(ty) /\ AbsTol = ZERO_TOL(ty)) =>
        (result = FEq(lhs, rhs))

\* a non-zero value compared with itself at zero tolerances
C5_Witness ==
    /\ Returned("is_close_tol") /\ vty = "scalar"
    /\ IsFinite(lhs) /\ lhs # 0 /\ rhs = lhs
    /\ RelTol = ZERO_TOL(ty) /\ AbsTol = ZERO_TOL(ty)
    /\ result = TRUE

(***************************************************************************)
(* Properties of the provided methods (checked on SpecPolicy)              *)
(***************************************************************************)
\* the operands of the call as places in memory
SelfAddr == LhsAddr(Len(lform))
OtherAddr == RhsAddr(Len(rform))

\* the primitive on the operands of the call, through the same types
Primitive(r, t) ==
    typ_is_close_tol(lform, rform, vty, ty, mem, SelfAddr, OtherAddr, r, t)

\* the primitive on the owned values
Owned(r, t) == is_close_tol(vty, ty, lhs, rhs, r, t)

\* C6: for every implementing type (scalar, composite, reference) and every
\* pair of operands, is_close returns what is_close_tol returns on the same
\* operands with REL_TOL and ABS_TOL of the type, which are those of the
\* scalar type underneath.
C6_Default ==
    Returned("is_close") =>
        /\ result = Primitive(Typ_REL_TOL(lform, vty, ty), Typ_ABS_TOL(lform, vty, ty))
        /\ result = Owned(REL_TOL(ty), ABS_TOL(ty))

\* a default comparison of different values that is close only because of
\* the default absolute tolerance
C6_Witness ==
    /\ Returned("is_close")
    /\ lhs # rhs
    /\ result = TRUE
    /\ ~Owned(REL_TOL(ty), ZERO_TOL(ty))

\* C7 as stated: the two methods delegate with ZERO_TOL for the omitted
\* tolerance, and on all scalars the relative-only result is
\* |a - b| <= max(|a|, |b|) * r and the absolute-only result is |a - b| <= t.
C7_AsStated ==
    /\ Returned("is_close_rel_tol") =>
          /\ result = Primitive(RelTol, Typ_ZERO_TOL(lform, vty, ty))
          /\ vty = "scalar" =>
                result = FLe(FAbs(FSub(lhs, rhs)), FMul(FMax(FAbs(lhs), FAbs(rhs)), RelTol))
    /\ Returned("is_close_abs_tol") =>
          /\ result = Primitive(Typ_ZERO_TOL(lform, vty, ty), AbsTol)
          /\ vty = "scalar" => result = FLe(FAbs(FSub(lhs, rhs)), AbsTol)

\* C7 amended: the delegation holds for every type and all operands; the
\* relative-only form holds on all scalars; the absolute-only form
\* |a - b| <= t holds for finite a and b.
C7_Delegation ==
    /\ Returned("is_close_rel_tol") =>
          /\ result = Primitive(RelTol, Typ_ZERO_TOL(lform, vty, ty))
          /\ result = Owned(RelTol, ZERO_TOL(ty))
          /\ vty = "scalar" =>
                result = FLe(FAbs(FSub(lhs, rhs)), FMul(FMax(FAbs(lhs), FAbs(rhs)), RelTol))
    /\ Returned("is_close_abs_tol") =>
          /\ result = Primitive(Typ_ZERO_TOL(lform, vty, ty), AbsTol)
          /\ result = Owned(ZERO_TOL(ty), AbsTol)
          /\ (vty = "scalar" /\ IsFinite(lhs) /\ IsFinite(rhs)) =>
                result = FLe(FAbs(FSub(lhs, rhs)), AbsTol)

\* an absolute-only comparison of different finite values of magnitude one
\* or more that is close, where the default relative tolerance is not used
C7_Witness ==
    /\ Returned("is_close_abs_tol") /\ vty = "scalar"
    /\ IsFinite(lhs) /\ IsFinite(rhs) /\ lhs # rhs
    /\ Mag(lhs) >= One /\ Mag(rhs) >= One
    /\ IsFinite(AbsTol)
    /\ result = TRUE

(***************************************************************************)
(* Properties of the composite impls (checked on SpecComposite)            *)
(***************************************************************************)
\* the fields of the operands whose pair is not close under (r, t)
NotCloseFields(r, t) ==
    {f \in DOMAIN FieldTypes(vty) :
        ~is_close_tol(FieldTypes(vty)[f], ty, lhs[f], rhs[f], r, t)}

\* C8: for every composite type is_close_tol is true exactly when every
\* pair of corresponding fields is close under the same (rel, abs); with a
\* single pair not close the result is false.
C8_AndLaw ==
    (Returned("is_close_tol") /\ vty \in CompositeTypes) =>
        /\ result = (NotCloseFields(RelTol, AbsTol) = {})
        /\ Cardinality(NotCloseFields(RelTol, AbsTol)) = 1 => result = FALSE

\* a transform whose last coefficient alone is not close
C8_Witness ==
    /\ Returned("is_close_tol") /\ vty = "Transform2D"
    /\ NotCloseFields(RelTol, AbsTol) = {"m32"}
    /\ result = FALSE

(***************************************************************************)
(* Properties of the reference impls and of the macros (checked on         *)
(* SpecRef and SpecAssert)                                                 *)
(***************************************************************************)
\* a call has been made and has come to its outcome
Done == pc \in {"returned", "panicked"}

\* the comparison an entry point stands for, made on the owned values with
\* the constants of the scalar type
OwnedComparison ==
    CASE op \in {"is_close_tol", "assert_is_close_tol"} -> Owned(RelTol, AbsTol)
      [] op \in {"is_close", "assert_is_close"} -> Owned(REL_TOL(ty), ABS_TOL(ty))
      [] op \in {"is_close_rel_tol", "assert_is_close_rel_tol"} ->
            Owned(RelTol, ZERO_TOL(ty))
      [] op \in {"is_close_abs_tol", "assert_is_close_abs_tol"} ->
            Owned(ZERO_TOL(ty), AbsTol)

\* C9: comparing through any resolvable combination of V, &V, &mut V and
\* nested references gives the boolean of comparing the owned values, and a
\* macro passes or fails accordingly whether its operands and tolerances are
\* given by value or by reference.
C9_RefTransparent ==
    Done =>
        /\ result = OwnedComparison
        /\ op \in Macros => ((pc = "returned") = OwnedComparison)

\* close, different values compared through a nested reference on the left
\* and a reference of another kind on the right
C9_Witness ==
    /\ Returned("is_close_tol")
    /\ Len(lform) = 2 /\ Len(rform) = 1
    /\ lform[1] # lform[2]
    /\ lhs # rhs
    /\ result = TRUE

\* the outcome of each macro in terms of the comparison it made
PassFail ==
    (Done /\ op \in Macros) =>
        /\ result = OwnedComparison
        /\ (pc = "panicked") = (result = FALSE)
        /\ (pc = "returned") = (result = TRUE)
        /\ (report # <<>>) = (pc = "panicked")
        /\ mem = BuildMem(lhs, rhs, lform, rform, rel_tol, abs_tol, tform[1], tform[2])

\* C10: each assertion macro ends in FAIL, with the report built and without
\* ever returning to the caller, exactly when its comparison returned false;
\* when the comparison returned true it returns with no report and the
\* operands untouched.
C10_PassFail == [] PassFail /\ [][pc = "panicked" => pc' = "panicked"]_vars

\* a failed default assertion
C10_Witness ==
    /\ pc = "panicked" /\ op = "assert_is_close"
    /\ result = FALSE
    /\ Len(report) = 5

(***************************************************************************)
(* Properties of the failure report (checked on SpecAssert)                *)
(***************************************************************************)
Failed == pc = "panicked" /\ op \in Macros

\* the pair of tolerances a report has to show for the call that failed
ReportedTols ==
    CASE rel_tol # <<>> /\ abs_tol # <<>> -> <<rel_tol[1], abs_tol[1]>>
      [] rel_tol # <<>> /\ abs_tol = <<>> -> <<rel_tol[1], 0>>
      [] rel_tol = <<>> /\ abs_tol # <<>> -> <<0, abs_tol[1]>>
      [] rel_tol = <<>> /\ abs_tol = <<>> -> <<REL_TOL(ty), ABS_TOL(ty)>>

\* C11: on failure the reported (rel tol, abs tol) pair is (default REL_TOL,
\* default ABS_TOL) when neither tolerance was given, (r, zero) when only the
\* relative tolerance r was given, (zero, a) when only the absolute tolerance
\* a was given, and exactly (r, a) when both were given.
C11_ReportTols ==
    Failed =>
        /\ report[4] = <<" rel tol: ", Debug(ReportedTols[1])>>
        /\ report[5] = <<" abs tol: ", Debug(ReportedTols[2])>>

\* a failed assertion with only a relative tolerance, on a type whose default
\* absolute tolerance is not zero
C11_Witness ==
    /\ Failed /\ op = "assert_is_close_rel_tol"
    /\ rel_tol = <<One \div 2>> /\ abs_tol = <<>>
    /\ report[5][2].of = 0
    /\ ABS_TOL(ty) # 0

\* the primary line of every report, before the message of the caller
PrimaryLine == <<"assertion ", Backtick, "left ~= right", Backtick, " failed">>

\* C12: every failure report has exactly five lines in the order primary
\* line, left, right, rel tol, abs tol; the primary line ends in ": <message>"
\* if and only if the caller gave a message, and the four lines after it are
\* the same with and without a message.
C12_Layout ==
    Failed =>
        /\ Len(report) = 5
        /\ report[1] = IF msg = <<>> THEN PrimaryLine
                       ELSE PrimaryLine \o <<": ", msg[1]>>
        /\ msg # <<>> => report[1] # PrimaryLine
        /\ report[2] = <<"    left: ", Debug(lhs)>>
        /\ report[3] = <<"   right: ", Debug(rhs)>>
        /\ report[4][1] = " rel tol: "
        /\ report[5][1] = " abs tol: "
        /\ \A args \in {<<>>} \cup {<<x>> : x \in Messages} :
              SubSeq(report, 2, 5) =
                  SubSeq(assert_failed(vty, ty, lhs, rhs, rel_tol, abs_tol, args), 2, 5)

\* a failed assertion with a message whose operands differ
C12_Witness ==
    /\ Failed /\ msg = <<"message">>
    /\ lhs # rhs
    /\ Len(report[1]) = 7

\* the tolerances an entry point hands to is_close_tol: its own arguments,
\* ZERO_TOL for the one that is_close_rel_tol / is_close_abs_tol does not
\* take, REL_TOL and ABS_TOL for is_close
EvaluatedTols ==
    CASE op \in {"is_close_tol", "assert_is_close_tol"} -> <<RelTol, AbsTol>>
      [] op \in {"is_close", "assert_is_close"} -> <<REL_TOL(ty), ABS_TOL(ty)>>
      [] op \in {"is_close_rel_tol", "assert_is_close_rel_tol"} ->
            <<RelTol, ZERO_TOL(ty)>>
      [] op \in {"is_close_abs_tol", "assert_is_close_abs_tol"} ->
            <<ZERO_TOL(ty), AbsTol>>

\* C13: for every macro and every failing call, the relative and absolute
\* tolerance printed in the report are the two values the failed comparison
\* was evaluated with: the zero shown for an omitted tolerance is ZERO_TOL as
\* used by is_close_rel_tol / is_close_abs_tol, and the defaults shown are
\* REL_TOL / ABS_TOL as used by is_close.
\* Which pair a comparison was evaluated with shows in its outcome over all
\* calls, passing ones included: a call that fails under the pair of the
\* report has to fail.
C13_Faithful ==
    /\ (Done /\ op \in Macros) =>
          /\ result = Primitive(EvaluatedTols[1], EvaluatedTols[2])
          /\ result = Owned(EvaluatedTols[1], EvaluatedTols[2])
    /\ Failed =>
          /\ report[4] = <<" rel tol: ", Debug(EvaluatedTols[1])>>
          /\ report[5] = <<" abs tol: ", Debug(EvaluatedTols[2])>>

\* a failed assertion with only an absolute tolerance that would have passed
\* under the default relative tolerance: the report shows the zero
C13_Witness ==
    /\ Failed /\ op = "assert_is_close_abs_tol"
    /\ IsFinite(lhs) /\ IsFinite(rhs)
    /\ Owned(REL_TOL(ty), AbsTol)
    /\ report[4][2].of = ZERO_TOL(ty)
    /\ REL_TOL(ty) # ZERO_TOL(ty)

(***************************************************************************)
(* Properties of the composite types (checked on SpecPolicy and            *)
(* SpecComposite)                                                          *)
(***************************************************************************)
\* the pairs of corresponding scalar leaves of two values of type V
RECURSIVE LeafPairs(_, _, _)
LeafPairs(V, a, b) ==
    IF V = "scalar" THEN {<<a, b>>}
    ELSE UNION {LeafPairs(FieldTypes(V)[f], a[f], b[f]) : f \in DOMAIN FieldTypes(V)}

\* the scalar comparison on every pair of leaves
LeavesClose(V, T, a, b, r, t) ==
    \A p \in LeafPairs(V, a, b) : scalar_is_close_tol(T, p[1], p[2], r, t)

\* C14: every composite type and every reference wrapper has ZERO_TOL,
\* ABS_TOL and REL_TOL equal to those of the scalar type underneath, so a
\* default comparison of composites or of references applies the defaults of
\* the scalar type to every leaf.
C14_Inherited ==
    /\ pc = "idle" =>
       \A V \in ValueTypes, S \in Chains(MaxRefDepth) :
          /\ V_ZERO_TOL(V, ty) = ZERO_TOL(ty)
          /\ V_ABS_TOL(V, ty) = ABS_TOL(ty)
          /\ V_REL_TOL(V, ty) = REL_TOL(ty)
          /\ Typ_ZERO_TOL(S, V, ty) = ZERO_TOL(ty)
          /\ Typ_ABS_TOL(S, V, ty) = ABS_TOL(ty)
          /\ Typ_REL_TOL(S, V, ty) = REL_TOL(ty)
    /\ Returned("is_close") =>
          result = LeavesClose(vty, ty, lhs, rhs, REL_TOL(ty), ABS_TOL(ty))

\* boxes that differ in one corner coordinate and are close by the default
\* tolerances of the scalar type alone
C14_Witness ==
    /\ Returned("is_close") /\ vty = "Box2D"
    /\ lhs.min = rhs.min /\ lhs.max.x = rhs.max.x /\ lhs.max.y # rhs.max.y
    /\ ~LeavesClose(vty, ty, lhs, rhs, ZERO_TOL(ty), ZERO_TOL(ty))
    /\ result = TRUE

(***************************************************************************)
(* Calls on quaternions and boxes                                          *)
(***************************************************************************)
\* the components of the quaternions compared, the least positive value and
\* 1.0 with both signs among them
QuatVals == {0, 1, 0 - 1, One, 0 - One, NaN}

\* the coordinates of the boxes translated, up to the largest finite value
BoxVals == {0, 1, One, MaxFinite, NaN}

\* the quaternion with every component negated
Rotation3D_neg(q) ==
    [i |-> FNeg(q.i), j |-> FNeg(q.j), k |-> FNeg(q.k), r |-> FNeg(q.r)]

\* Point2D::origin(), Point3D::origin()
Point_origin(P) ==
    IF P = "Point2D" THEN MakePoint2D(<<0, 0>>) ELSE MakePoint3D(<<0, 0, 0>>)

\* Box2D::new(min, max), Box3D::new(min, max)
Box_new(min, max) == [min |-> min, max |-> max]

\* point + vector, by coordinate
Point_add(p, by) == [f \in DOMAIN p |-> FAdd(p[f], by[f])]

\* Box2D::translate(by), Box3D::translate(by)
Box_translate(b, by) == Box_new(Point_add(b.min, by), Point_add(b.max, by))

BoxTypes == {"Box2D", "Box3D"}

\* a quaternion against its negation
RotationNeg ==
    /\ pc = "idle"
    /\ \E T \in {ty}, r \in TolVals, t \in TolVals,
          s \in [1..NumLeaves("Rotation3D") -> QuatVals] :
          \E q \in {MakeRotation3D(s)} :
             \E n \in {Rotation3D_neg(q)} :
                Call_method("is_close_tol", <<>>, <<>>, "Rotation3D", T,
                            q, n, <<r>>, <<t>>)

\* a box against the box with the two corners swapped
BoxSwapped ==
    /\ pc = "idle"
    /\ \E V \in BoxTypes, T \in {ty}, r \in TolVals, t \in TolVals :
          \E s \in [1..NumLeaves(V) -> CompVals] :
             \E a \in {Make(V, s)} :
                \E b \in {Box_new(a.max, a.min)} :
                   Call_method("is_close_tol", <<>>, <<>>, V, T, a, b, <<r>>, <<t>>)

\* a box built at the origin and translated, against the box built from the
\* corners that result (tests box_2d, box_3d)
BoxTranslated ==
    /\ pc = "idle"
    /\ \E V \in BoxTypes, T \in {ty} :
          \E s \in [1..NumLeaves(V) -> BoxVals] :
             \E c \in {Make(V, s)}, P \in {FieldTypes(V).min} :
                \E box1 \in {Box_new(Point_add(Point_origin(P), c.min),
                                     Point_add(c.max, c.min))},
                   box2 \in {Box_translate(Box_new(Point_origin(P), c.max), c.min)} :
                   Call_method("is_close", <<>>, <<>>, V, T, box1, box2, <<>>, <<>>)

NextEuclid == RotationNeg \/ BoxSwapped \/ BoxTranslated \/ Return

SpecEuclid == Init /\ [][NextEuclid]_vars

(***************************************************************************)
(* Properties of quaternions and boxes (checked on SpecEuclid)             *)
(***************************************************************************)
\* the components of q that are not close to their negation
NotCloseToNeg(q, r, t) ==
    {c \in DOMAIN q : ~scalar_is_close_tol(ty, q[c], FNeg(q[c]), r, t)}

\* C17: Rotation3D compares its components i, j, k, r one by one, so a
\* rotation q and its negation -q are not close whenever some component c of
\* q is not close to -c under the given tolerances.
C17_NoDoubleCover ==
    (Returned("is_close_tol") /\ vty = "Rotation3D") =>
        /\ result = \A c \in {"i", "j", "k", "r"} :
                       scalar_is_close_tol(ty, lhs[c], rhs[c], RelTol, AbsTol)
        /\ (rhs = Rotation3D_neg(lhs) /\ NotCloseToNeg(lhs, RelTol, AbsTol) # {})
              => result = FALSE

\* the identity rotation against its negation, the same rotation
C17_Witness ==
    /\ Returned("is_close_tol") /\ vty = "Rotation3D"
    /\ lhs = MakeRotation3D(<<0, 0, 0, One>>)
    /\ rhs = Rotation3D_neg(lhs)
    /\ NotCloseToNeg(lhs, RelTol, AbsTol) = {"r"}
    /\ result = FALSE

\* the type of the corners of a box type
CornerType(V) == FieldTypes(V).min

\* corner p close to corner q, leaf by leaf
CornersClose(p, q, r, t) == LeavesClose(CornerType(vty), ty, p, q, r, t)

\* every coordinate of the box is finite
FiniteBox(b) ==
    \A c \in {"min", "max"} : \A f \in DOMAIN b[c] : IsFinite(b[c][f])

\* the right operand is a box built at the origin and translated by its
\* lower corner, the left operand the box built from the resulting corners
IsTranslated ==
    /\ rhs.min = Point_add(Point_origin(CornerType(vty)), rhs.min)
    /\ lhs.min = rhs.min
    /\ \A f \in DOMAIN rhs.max :
          \E x \in BoxVals : /\ rhs.max[f] = FAdd(x, rhs.min[f])
                             /\ lhs.max[f] = FAdd(x, rhs.min[f])

\* boxes are compared corner by corner; swapped corners are close only if
\* the corners match each other
BoxCorners ==
    (Returned("is_close_tol") /\ vty \in BoxTypes) =>
        /\ result = (/\ CornersClose(lhs.min, rhs.min, RelTol, AbsTol)
                     /\ CornersClose(lhs.max, rhs.max, RelTol, AbsTol))
        /\ rhs = Box_new(lhs.max, lhs.min) =>
              result = (/\ CornersClose(lhs.min, lhs.max, RelTol, AbsTol)
                        /\ CornersClose(lhs.max, lhs.min, RelTol, AbsTol))

\* C18 as stated: Box2D and Box3D are close iff min is close to min and max
\* to max; boxes with swapped corners are not close unless the corners match
\* within tolerance; and every box built at the origin and translated is
\* close to the box with the resulting corners.
C18_AsStated ==
    /\ BoxCorners
    /\ (Returned("is_close") /\ vty \in BoxTypes /\ IsTranslated) => result = TRUE

\* C18 amended: the same, the translated box being close to the box with the
\* resulting corners when these corners are finite.
C18_Corners ==
    /\ BoxCorners
    /\ (Returned("is_close") /\ vty \in BoxTypes /\ IsTranslated) =>
          /\ FiniteBox(lhs) => result = TRUE
          /\ ~FiniteBox(lhs) => result = FALSE

\* the box from the origin to (least positive value, 1.0) translated by
\* (1.0, least positive value), close to the box with the corners that
\* result, the upper one with both sums rounded
C18_Witness ==
    /\ Returned("is_close") /\ vty = "Box2D" /\ IsTranslated
    /\ lhs.min = MakePoint2D(<<One, 1>>)
    /\ lhs.max = MakePoint2D(<<FAdd(1, One), FAdd(One, 1)>>)
    /\ FiniteBox(lhs)
    /\ result = TRUE

\* the paths of field names from a value of type V to its scalar leaves
RECURSIVE LeafPaths(_)
LeafPaths(V) ==
    IF V = "scalar" THEN {<<>>}
    ELSE UNION {{<<f>> \o p : p \in LeafPaths(FieldTypes(V)[f])} :
                   f \in DOMAIN FieldTypes(V)}

\* the components of the two parts of a rigid transform that are not close
RigidNotClose(r, t) ==
    {<<"rotation", c>> : c \in {c \in {"i", "j", "k", "r"} :
        ~scalar_is_close_tol(ty, lhs.rotation[c], rhs.rotation[c], r, t)}}
    \cup
    {<<"translation", c>> : c \in {c \in {"x", "y", "z"} :
        ~scalar_is_close_tol(ty, lhs.translation[c], rhs.translation[c], r, t)}}

\* C19: the comparison of a composite whose fields are composites ends at
\* the scalar leaves, finitely many and at most two fields deep, and equals
\* the conjunction over all these leaves; RigidTransform3D is close iff the
\* four components of the rotation and the three of the translation are
\* each close under the same pair of tolerances.
C19_Flat ==
    (Returned("is_close_tol") /\ vty \in CompositeTypes) =>
        /\ result \in BOOLEAN
        /\ result = LeavesClose(vty, ty, lhs, rhs, RelTol, AbsTol)
        /\ Cardinality(LeafPaths(vty)) = NumLeaves(vty)
        /\ \A p \in LeafPaths(vty) : Len(p) \in {1, 2}
        /\ vty = "RigidTransform3D" =>
              /\ Cardinality(LeafPaths(vty)) = 7
              /\ result = (RigidNotClose(RelTol, AbsTol) = {})

\* rigid transforms that differ in the last component of the translation only
C19_Witness ==
    /\ Returned("is_close_tol") /\ vty = "RigidTransform3D"
    /\ lhs.rotation = rhs.rotation
    /\ RigidNotClose(RelTol, AbsTol) = {<<"translation", "z">>}
    /\ result = FALSE

(***************************************************************************)
(* Non-finite operands (checked on SpecTol)                                *)
(***************************************************************************)
\* C20: under the scalar formula a NaN operand is never close to anything,
\* itself included, and an infinity is not close to the infinity of the same
\* sign, whatever the pair of tolerances; reflexivity fails for the values
\* that are not finite.
C20_NonFinite ==
    Returned("is_close_tol") =>
        /\ (IsNaN(lhs) \/ IsNaN(rhs)) => result = FALSE
        /\ (IsInf(lhs) /\ rhs = lhs) => result = FALSE
        /\ (~IsFinite(lhs) /\ rhs = lhs) => result = FALSE

\* +infinity against +infinity under infinite tolerances
C20_Witness ==
    /\ Returned("is_close_tol")
    /\ lhs = PosInf /\ rhs = PosInf
    /\ RelTol = PosInf /\ AbsTol = PosInf
    /\ result = FALSE

(***************************************************************************)
(* Calls at full width                                                     *)
(***************************************************************************)
\* decimal literals <<d, e>> for d * 10^e: 0.1, 0.2, 0.3, 0.01, 0.02, 2.0, 3.0
DecLits == {<<1, 0 - 1>>, <<2, 0 - 1>>, <<3, 0 - 1>>, <<1, 0 - 2>>, <<2, 0 - 2>>,
            <<2, 0>>, <<3, 0>>}

\* literals of the 16-bit tests and the integers around the end of the
\* range in which f16 holds every integer
HalfLits == {<<0, 0>>, <<1, 0>>, <<2048, 0>>, <<1, 0 - 1>>, <<2, 0 - 1>>, <<3, 0 - 1>>}
HalfTolLits == {<<0, 0>>, <<1, 0>>, <<1, 0 - 3>>, <<1, 0 - 6>>}

FullScalarTypes == {"f32_full", "f64_full"}
HalfTypes == {"f16", "bf16"}

\* a literal of type T
Lit(T, l) == WLit(T, l[1], l[2])

\* f16::from_f32, bf16::from_f32 of a literal
from_f32(T, l) == WConvert(T, WLit("f32_full", l[1], l[2]))

\* + of f16 and of bf16: the sum of the widened operands, narrowed
half_add(T, x, y) == WConvert(T, WAdd("f32_full", to_f32(x), to_f32(y)))

\* the literals that the examples add up: 0.1, 0.2
SumLits == {<<1, 0 - 1>>, <<2, 0 - 1>>}

\* literals of type T and sums of two of them
FullOperands(T) ==
    {Lit(T, x) : x \in DecLits}
        \cup {WAdd(T, Lit(T, x), Lit(T, y)) : x \in SumLits, y \in SumLits}

\* 16-bit values made from literals, their sums and their negations
HalfOperands(T) ==
    {from_f32(T, x) : x \in HalfLits}
        \cup {half_add(T, from_f32(T, x), from_f32(T, y)) : x \in SumLits, y \in SumLits}

\* is_close on literals and on sums of two literals
FullCall ==
    /\ pc = "idle"
    /\ \E T \in FullScalarTypes :
          \E a \in FullOperands(T), b \in {Lit(T, z) : z \in DecLits} :
             Call_method("is_close", <<>>, <<>>, "scalar", T, a, b, <<>>, <<>>)

\* assert_is_close! on literals
FullAssert ==
    /\ pc = "idle"
    /\ \E T \in FullScalarTypes, args \in {<<>>} \cup {<<m>> : m \in Messages} :
          \E a \in {Lit(T, x) : x \in DecLits}, b \in {Lit(T, z) : z \in DecLits} :
             Call_assert("assert_is_close", <<>>, <<>>, "scalar", T,
                         a, b, <<>>, <<>>, "val", "val", args)

\* is_close_tol and is_close on 16-bit values
HalfCall ==
    /\ pc = "idle"
    /\ \E T \in HalfTypes, o \in {"is_close_tol", "is_close"} :
          \E a \in HalfOperands(T),
             b \in {from_f32(T, z) : z \in HalfLits}
                      \cup {WNeg(from_f32(T, z)) : z \in HalfLits},
             r \in IF TakesRel(o) THEN {<<from_f32(T, x)>> : x \in HalfTolLits} ELSE {<<>>},
             t \in IF TakesAbs(o) THEN {<<from_f32(T, x)>> : x \in HalfTolLits} ELSE {<<>>} :
             Call_method(o, <<>>, <<>>, "scalar", T, a, b, r, t)

NextFull == FullCall \/ FullAssert \/ HalfCall \/ Return

SpecFull == Init /\ [][NextFull]_vars

(***************************************************************************)
(* Properties of the default constants (checked on SpecFull)               *)
(***************************************************************************)
\* C15: single precision has the relative and absolute default tolerance
\* 1e-6 and double precision 1e-9, both with the zero tolerance 0; so under
\* the defaults 0.1 + 0.2 is close to 0.3 in double precision, 0.01 is not
\* close to 0.02, and a failed default assertion of 2.0 against 3.0 in single
\* precision reports 1e-6 as rel tol and as abs tol.
C15_Defaults ==
    /\ pc = "idle" =>
          /\ REL_TOL("f32_full") = WLit("f32_full", 1, 0 - 6)
          /\ ABS_TOL("f32_full") = WLit("f32_full", 1, 0 - 6)
          /\ REL_TOL("f64_full") = WLit("f64_full", 1, 0 - 9)
          /\ ABS_TOL("f64_full") = WLit("f64_full", 1, 0 - 9)
          /\ ZERO_TOL("f32_full") = WZero /\ ZERO_TOL("f64_full") = WZero
    /\ (Returned("is_close") /\ ty \in FullScalarTypes) =>
          result = full_is_close_tol(ty, lhs, rhs, Lit(ty, IF ty = "f32_full"
                                                           THEN <<1, 0 - 6>>
                                                           ELSE <<1, 0 - 9>>),
                                     Lit(ty, IF ty = "f32_full" THEN <<1, 0 - 6>>
                                             ELSE <<1, 0 - 9>>))
    /\ (Returned("is_close") /\ ty = "f64_full") =>
          /\ (/\ lhs = WAdd(ty, Lit(ty, <<1, 0 - 1>>), Lit(ty, <<2, 0 - 1>>))
              /\ rhs = Lit(ty, <<3, 0 - 1>>)) => result = TRUE
          /\ (lhs = Lit(ty, <<1, 0 - 2>>) /\ rhs = Lit(ty, <<2, 0 - 2>>))
                => result = FALSE
    /\ (/\ Done /\ op = "assert_is_close" /\ ty = "f32_full"
        /\ lhs = Lit(ty, <<2, 0>>) /\ rhs = Lit(ty, <<3, 0>>)) =>
          /\ pc = "panicked"
          /\ report[2] = <<"    left: ", Debug(Lit(ty, <<2, 0>>))>>
          /\ report[3] = <<"   right: ", Debug(Lit(ty, <<3, 0>>))>>
          /\ report[4] = <<" rel tol: ", Debug(WLit("f32_full", 1, 0 - 6))>>
          /\ report[5] = <<" abs tol: ", Debug(WLit("f32_full", 1, 0 - 6))>>

\* 0.1 + 0.2 against 0.3 in double precision: different values, close
C15_Witness ==
    /\ Returned("is_close") /\ ty = "f64_full"
    /\ lhs = WAdd(ty, Lit(ty, <<1, 0 - 1>>), Lit(ty, <<2, 0 - 1>>))
    /\ rhs = Lit(ty, <<3, 0 - 1>>)
    /\ lhs # rhs
    /\ result = TRUE

\* C16: for f16 and bf16 is_close_tol(a, b, rel, abs) is the single
\* precision is_close_tol on the widened a, b, rel and abs, widening keeping
\* every value; the default tolerances are 1e-3 for f16 and 1e-2 for bf16,
\* the relative and the absolute one alike.
C16_Widened ==
    /\ pc = "idle" =>
          /\ REL_TOL("f16") = WLit("f16", 1, 0 - 3)
          /\ ABS_TOL("f16") = WLit("f16", 1, 0 - 3)
          /\ REL_TOL("bf16") = WLit("bf16", 1, 0 - 2)
          /\ ABS_TOL("bf16") = WLit("bf16", 1, 0 - 2)
    /\ (Returned("is_close_tol") /\ ty \in HalfTypes) =>
          /\ \A x \in {lhs, rhs, RelTol, AbsTol} :
                WRound("f32_full", x.s, x.m, x.e) = x
          /\ result = full_is_close_tol("f32_full", lhs, rhs, RelTol, AbsTol)
    /\ (Returned("is_close") /\ ty \in HalfTypes) =>
          result = full_is_close_tol("f32_full", lhs, rhs,
                                     Lit(ty, IF ty = "f16" THEN <<1, 0 - 3>>
                                             ELSE <<1, 0 - 2>>),
                                     Lit(ty, IF ty = "f16" THEN <<1, 0 - 3>>
                                             ELSE <<1, 0 - 2>>))

\* 2048 against -1 in f16 under the relative tolerance 1: the difference is
\* 2049 in single precision and not within 2048, while f16 itself has no 2049
C16_Witness ==
    /\ Returned("is_close_tol") /\ ty = "f16"
    /\ lhs = Lit(ty, <<2048, 0>>) /\ rhs = WNeg(Lit(ty, <<1, 0>>))
    /\ RelTol = Lit(ty, <<1, 0>>) /\ AbsTol = WZero
    /\ WSub("f16", lhs, rhs) = lhs
    /\ result = FALSE

(***************************************************************************)
(* Properties of the effect on the operands (checked on SpecRef)           *)
(***************************************************************************)
\* the memory as the caller set it up for the call
CallerMem == BuildMem(lhs, rhs, lform, rform, rel_tol, abs_tol, tform[1], tform[2])

\* C21: after every comparison and every assertion, whether it passed or
\* panicked, both operands and both tolerances hold the values the caller
\* gave them, and so does every reference to them, also when an operand was
\* passed through a mutable reference.
C21_NoMutation ==
    Done =>
        /\ mem = CallerMem
        /\ mem[LhsAddr(0)] = ValCell(lhs)
        /\ mem[RhsAddr(0)] = ValCell(rhs)
        /\ rel_tol # <<>> => mem[RelAddr(0)] = ValCell(rel_tol[1])
        /\ abs_tol # <<>> => mem[AbsAddr(0)] = ValCell(abs_tol[1])

\* a comparison of different values that returned false, the left one given
\* through a mutable reference
C21_Witness ==
    /\ Returned("is_close_tol")
    /\ lform # <<>> /\ Head(lform) = "mut"
    /\ mem[LhsAddr(Len(lform))].kind = "mut"
    /\ lhs # rhs
    /\ result = FALSE
    /\ mem[LhsAddr(0)] = ValCell(lhs)

(***************************************************************************)
(* Comparisons that run at the same time                                   *)
(***************************************************************************)
\* the value types the threads compare, their fields in the order in which
\* is_close_tol compares them, and field i of a value
ThreadTypes == {"scalar", "Point2D"}
Fields(V) == IF V = "scalar" THEN <<"self">> ELSE <<"x", "y">>
Field(V, v, i) == IF V = "scalar" THEN v ELSE v[Fields(V)[i]]

\* the caller puts two operands and two tolerances in its memory and shares
\* them with all threads
Share ==
    /\ pc = "idle"
    /\ \E V \in ThreadTypes, T \in {ty}, x \in CompVals, y \in CompVals,
          i \in 1..2, r \in TolVals, t \in TolVals :
          /\ V = "scalar" => i = 1
          /\ \E a \in {IF V = "scalar" THEN x ELSE MakePoint2D(<<x, x>>)},
                b \in {IF V = "scalar" THEN y
                       ELSE MakePoint2D(Leaves(2, x, i, y))} :
                \E m \in {BuildMem(a, b, <<>>, <<>>, <<r>>, <<t>>, "val", "val")} :
                   /\ pc' = "shared"
                   /\ op' = "is_close_tol"
                   /\ vty' = V
                   /\ ty' = T
                   /\ lhs' = a
                   /\ rhs' = b
                   /\ rel_tol' = <<r>>
                   /\ abs_tol' = <<t>>
                   /\ mem' = m
                   /\ thread' = [u \in Threads |-> [NoThread EXCEPT !.pc = "ready"]]
                   /\ stack' = [p \in Threads |-> NoFrame]
                   /\ UNCHANGED <<lform, rform, tform, msg, result, report>>

\* thread u calls is_close_tol on two of the shared operands, which may be
\* the same one, with the two shared tolerances in either role
Enter(u) ==
    /\ pc = "shared"
    /\ thread[u].pc = "ready"
    /\ \E ops \in {<<LhsAddr(0), RhsAddr(0)>>, <<LhsAddr(0), LhsAddr(0)>>},
          tols \in {<<RelAddr(0), AbsAddr(0)>>, <<AbsAddr(0), RelAddr(0)>>} :
          thread' = [thread EXCEPT ![u] =
                        [pc |-> "tol", self |-> ops[1], rhs |-> ops[2],
                         rel |-> tols[1], abs |-> tols[2], leaf |-> 1,
                         result |-> FALSE]]
    /\ UNCHANGED <<pc, op, vty, ty, lform, rform, tform, lhs, rhs, rel_tol,
                   abs_tol, msg, mem, result, report, stack>>

\* thread u computes the local tol for the field it is at
Tol(u) ==
    /\ pc = "shared"
    /\ thread[u].pc = "tol"
    /\ stack' = [stack EXCEPT ![Frame(u)] =
                    [tol |-> scalar_tol(Field(vty, mem[thread[u].self].val, thread[u].leaf),
                                        Field(vty, mem[thread[u].rhs].val, thread[u].leaf),
                                        mem[thread[u].rel].val, mem[thread[u].abs].val),
                     by |-> u]]
    /\ thread' = [thread EXCEPT ![u].pc = "cmp"]
    /\ UNCHANGED <<pc, op, vty, ty, lform, rform, tform, lhs, rhs, rel_tol,
                   abs_tol, msg, mem, result, report>>

\* thread u compares the difference with its tol: false ends the && chain,
\* true goes on to the next field or ends it after the last one
Cmp(u) ==
    /\ pc = "shared"
    /\ thread[u].pc = "cmp"
    /\ \E c \in {scalar_within(Field(vty, mem[thread[u].self].val, thread[u].leaf),
                               Field(vty, mem[thread[u].rhs].val, thread[u].leaf),
                               stack[Frame(u)].tol)} :
          thread' = [thread EXCEPT ![u] =
                        IF c /\ thread[u].leaf < Len(Fields(vty))
                        THEN [@ EXCEPT !.pc = "tol", !.leaf = @ + 1]
                        ELSE [@ EXCEPT !.pc = "done", !.result = c]]
    /\ UNCHANGED <<pc, op, vty, ty, lform, rform, tform, lhs, rhs, rel_tol,
                   abs_tol, msg, mem, result, report, stack>>

\* all threads have returned and the caller goes on
Join ==
    /\ pc = "shared"
    /\ \A u \in Threads : thread[u].pc = "done"
    /\ pc' = "idle"
    /\ op' = "none"
    /\ vty' = "scalar"
    /\ lhs' = 0
    /\ rhs' = 0
    /\ rel_tol' = <<>>
    /\ abs_tol' = <<>>
    /\ mem' = NoMem
    /\ thread' = [u \in Threads |-> NoThread]
    /\ stack' = [p \in Threads |-> NoFrame]
    /\ UNCHANGED <<ty, lform, rform, tform, msg, result, report>>

NextThreads ==
    \/ Share
    \/ \E u \in Threads : Enter(u) \/ Tol(u) \/ Cmp(u)
    \/ Join

SpecThreads == Init /\ [][NextThreads]_vars

(***************************************************************************)
(* Properties of concurrent comparisons (checked on SpecThreads)           *)
(***************************************************************************)
\* the result of the call of thread u when nothing else runs
Alone(u) ==
    is_close_tol(vty, ty, mem[thread[u].self].val, mem[thread[u].rhs].val,
                 mem[thread[u].rel].val, mem[thread[u].abs].val)

\* C22: under every interleaving of the steps of the threads, each thread
\* returns what its call returns when run alone on the shared operands, the
\* tol it compares with is the one it computed itself, and the shared
\* operands stay as the caller set them up.
C22_Independent ==
    pc = "shared" =>
        /\ \A u \in Threads :
              /\ thread[u].pc = "done" => thread[u].result = Alone(u)
              /\ thread[u].pc = "cmp" => stack[Frame(u)].by = u
        /\ mem = CallerMem

\* two threads that share their left operand: the first has returned true,
\* the second has computed its own tol in the meantime and is about to find
\* its operands not close
C22_Witness ==
    /\ pc = "shared"
    /\ thread[1].pc = "done" /\ thread[1].result = TRUE
    /\ thread[2].pc = "cmp"
    /\ thread[1].self = thread[2].self /\ thread[1].rhs # thread[2].rhs
    /\ stack[Frame(1)].by = 1 /\ stack[Frame(2)].by = 2
    /\ ~scalar_within(Field(vty, mem[thread[2].self].val, thread[2].leaf),
                      Field(vty, mem[thread[2].rhs].val, thread[2].leaf),
                      stack[Frame(2)].tol)

(***************************************************************************)
(* Composites under all non-negative tolerances                            *)
(***************************************************************************)
\* the tolerances of the composite calls and the infinite one
LiftTols == TolVals \cup {PosInf}

\* is_close_tol on owned composites that differ from uniform values in at
\* most one leaf each
LiftCall ==
    /\ pc = "idle"
    /\ \E V \in CompositeTypes, T \in {ty},
          x \in CompVals, x1 \in CompVals, y \in CompVals, y1 \in CompVals,
          r \in LiftTols, t \in LiftTols :
          \E i \in 1..NumLeaves(V) :
             \E j \in {i, (i % NumLeaves(V)) + 1} :
                \E a \in {Make(V, Leaves(NumLeaves(V), x, i, x1))},
                   b \in {Make(V, Leaves(NumLeaves(V), y, j, y1))} :
                   Call_method("is_close_tol", <<>>, <<>>, V, T, a, b, <<r>>, <<t>>)

NextLift == LiftCall \/ Return

SpecLift == Init /\ [][NextLift]_vars

(***************************************************************************)
(* Properties of composites lifted from the scalars (checked on SpecLift)  *)
(***************************************************************************)
\* every leaf of both operands is finite
FiniteLeaves == \A p \in LeafPairs(vty, lhs, rhs) : IsFinite(p[1]) /\ IsFinite(p[2])

\* the three properties on the call that returned
LiftSymmetric == result = is_close_tol(vty, ty, rhs, lhs, RelTol, AbsTol)
LiftReflexive == is_close_tol(vty, ty, lhs, lhs, RelTol, AbsTol)
LiftMonotone ==
    result =>
        \A r2 \in LiftTols, t2 \in LiftTols :
            (FLe(RelTol, r2) /\ FLe(AbsTol, t2)) =>
                is_close_tol(vty, ty, lhs, rhs, r2, t2)

\* C23: for composites c and d with finite leaves and non-negative
\* tolerances, is_close_tol(c, d, rel, abs) equals is_close_tol(d, c, rel,
\* abs), is_close_tol(c, c, rel, abs) is true, and a close pair stays close
\* when rel and abs are increased.
C23_Lifted ==
    (/\ Returned("is_close_tol") /\ vty \in CompositeTypes
     /\ FiniteLeaves /\ NonNeg(RelTol) /\ NonNeg(AbsTol)) =>
        LiftSymmetric /\ LiftReflexive /\ LiftMonotone

====
